---- MODULE Spec2Model ----
(***************************************************************************)
(* Model of the GitLab MCP server, DXT build 1.3.0 (src/unnamed/part_004): *)
(* the call-tool request handler (dispatcher), the tool handlers it calls, *)
(* the makeGitLabRequest retry wrapper, and the process from module load   *)
(* to exit; and of the dispatcher of build 1.2.0 (src/src/index.ts).       *)
(*                                                                         *)
(* Variables: calls (the runs of the call handler), mk (makeGitLabRequest),*)
(* proc (the process) and remote (the state GitLab keeps).                 *)
(*                                                                         *)
(* Specifications: Spec (the dispatcher), InvokerSpec (one call of         *)
(* makeGitLabRequest), ProcessSpec (startup and shutdown), HandlerSpec     *)
(* (one invocation of a handler, under every sequence of responses),       *)
(* FileReadSpec (get_file_contents over file paths), ConcurrentSpec        *)
(* (several operations in flight), LabelRaceSpec (add_labels_to_issue      *)
(* invocations against one issue) and VersionSpec (builds 1.2.0 and 1.3.0  *)
(* side by side).                                                          *)
(*                                                                         *)
(* JSON values are modelled as [t, s] records (t the JavaScript type, s    *)
(* the value's text) and JSON objects as sequences of <<key, value>> pairs *)
(* in insertion order, so that serialisation and schema validation are     *)
(* computed on data rather than assumed.                                   *)
(***************************************************************************)
EXTENDS Integers, Sequences, FiniteSets, TLC

\* Number of call-tool invocations the transport delivers.
MaxCalls == 1

VARIABLES calls, mk, proc, remote

vars == <<calls, mk, proc, remote>>

CallIds == 1..MaxCalls

----------------------------------------------------------------------------
(* JSON values and JSON.stringify                                          *)

Str(s) == [t |-> "string", s |-> s]
Num(s) == [t |-> "number", s |-> s]
Undefined == [t |-> "undefined", s |-> ""]
Arr(items) == [t |-> "array", s |-> "", items |-> items]
Obj(obj) == [t |-> "object", s |-> "", obj |-> obj]

RECURSIVE Lookup(_, _)
Lookup(obj, key) ==
  IF obj = <<>> THEN Undefined
  ELSE IF Head(obj)[1] = key THEN Head(obj)[2]
  ELSE Lookup(Tail(obj), key)

HasKey(obj, key) == \E i \in 1..Len(obj) : obj[i][1] = key

\* JavaScript truthiness of a property value: undefined, "" and 0 are falsy,
\* every array and object is truthy.
Truthy(v) ==
  \/ v.t \in {"array", "object"}
  \/ v.t = "string" /\ v.s # ""
  \/ v.t = "number" /\ v.s # "0"

JsonValueText(v) == IF v.t = "string" THEN "\"" \o v.s \o "\"" ELSE v.s

RECURSIVE JsonMembers(_, _, _)
RECURSIVE JsonItems(_, _, _)
RECURSIVE JsonText(_, _, _)

\* The text of a value that is a member or item written at indentation indent
\* ("" in the compact form): arrays and objects nest one level deeper.
JsonText(v, indent, colon) ==
  LET nl == IF indent = "" THEN "" ELSE "\n"
      inner == IF indent = "" THEN "" ELSE indent \o "  "
  IN CASE v.t = "array" ->
            IF v.items = <<>> THEN "[]"
            ELSE "[" \o nl \o JsonItems(v.items, inner, colon) \o nl \o indent \o "]"
       [] v.t = "object" ->
            IF v.obj = <<>> THEN "{}"
            ELSE "{" \o nl \o JsonMembers(v.obj, inner, colon) \o nl \o indent \o "}"
       [] OTHER -> JsonValueText(v)

JsonItems(items, indent, colon) ==
  IF items = <<>> THEN ""
  ELSE indent \o JsonText(Head(items), indent, colon)
       \o (IF Len(items) > 1
           THEN "," \o (IF indent = "" THEN "" ELSE "\n")
                \o JsonItems(Tail(items), indent, colon)
           ELSE "")

JsonMembers(obj, indent, colon) ==
  IF obj = <<>> THEN ""
  ELSE indent \o "\"" \o Head(obj)[1] \o "\"" \o colon
       \o JsonText(Head(obj)[2], indent, colon)
       \o (IF Len(obj) > 1
           THEN "," \o (IF indent = "" THEN "" ELSE "\n")
                \o JsonMembers(Tail(obj), indent, colon)
           ELSE "")

\* JSON.stringify(value): the compact form.
JSONStringify(obj) == "{" \o JsonMembers(obj, "", ":") \o "}"

\* Faulty variant of JSONStringifyPretty: the compact form instead of the indented one.
JSONStringifyPretty_Compact(obj) == JSONStringify(obj)

\* JSON.stringify(value, null, 2): one member per line, two-space indent.
JSONStringifyPretty(obj) ==
  IF obj = <<>> THEN "{}"
  ELSE "{\n" \o JsonMembers(obj, "  ", ": ") \o "\n}"

RECURSIVE Join(_, _)
Join(strs, sep) ==
  IF strs = <<>> THEN ""
  ELSE IF Len(strs) = 1 THEN Head(strs)
  ELSE Head(strs) \o sep \o Join(Tail(strs), sep)

\* String.prototype.includes
Includes(s, sub) ==
  \E i \in 1..(Len(s) - Len(sub) + 1) : SubSeq(s, i, i + Len(sub) - 1) = sub

----------------------------------------------------------------------------
(* Zod schemas and Schema.parse                                            *)

Field(name, type, optional) == [name |-> name, type |-> type, optional |-> optional]

VisibilityValues == {"private", "internal", "public"}

ProjectParamsSchema == << Field("project_id", "string", FALSE) >>

DeleteProjectSchema == ProjectParamsSchema

CreateBranchSchema ==
  ProjectParamsSchema \o << Field("branch", "string", FALSE),
                            Field("ref", "string", TRUE) >>

CreateRepositorySchema ==
  << Field("name", "string", FALSE), Field("visibility", "enum", TRUE) >>

CreateOrUpdateFileSchema ==
  ProjectParamsSchema \o << Field("file_path", "string", FALSE),
                            Field("content", "string", FALSE),
                            Field("commit_message", "string", FALSE),
                            Field("branch", "string", FALSE),
                            Field("previous_path", "string", TRUE) >>

GetFileContentsSchema ==
  ProjectParamsSchema \o << Field("file_path", "string", FALSE),
                            Field("ref", "string", TRUE) >>

TimeTrackingSchema ==
  ProjectParamsSchema \o << Field("issue_iid", "numberOrString", FALSE),
                            Field("duration", "string", FALSE) >>

DeleteNoteSchema ==
  ProjectParamsSchema \o << Field("issue_iid", "numberOrString", FALSE),
                            Field("note_id", "numberOrString", FALSE) >>

GitLabTimeStatsSchema ==
  << Field("time_estimate", "number", TRUE), Field("total_time_spent", "number", TRUE),
     Field("human_time_estimate", "string", TRUE),
     Field("human_total_time_spent", "string", TRUE) >>

\* The input contract of add_labels_to_issue and remove_labels_from_issue.
ManageIssueLabelsSchema ==
  ProjectParamsSchema \o << Field("issue_iid", "numberOrString", FALSE),
                            Field("labels", "array", FALSE) >>

GitLabFileContentSchema ==
  << Field("file_name", "string", FALSE), Field("file_path", "string", FALSE),
     Field("size", "number", FALSE), Field("encoding", "string", FALSE),
     Field("content", "string", FALSE), Field("content_sha256", "string", FALSE),
     Field("ref", "string", FALSE), Field("blob_id", "string", FALSE),
     Field("last_commit_id", "string", FALSE) >>

GitLabCreateUpdateFileResponseSchema ==
  << Field("file_path", "string", FALSE), Field("branch", "string", FALSE),
     Field("commit_id", "string", FALSE), Field("content", "object", TRUE) >>

\* GitLabIssueSchema extended with time_stats (the fields the model's
\* response bodies carry).
GitLabEnhancedIssueSchema ==
  << Field("iid", "number", FALSE), Field("title", "string", FALSE),
     Field("state", "string", FALSE), Field("labels", "array", FALSE) >>

\* Output contracts (the fields the model's response bodies carry).
GitLabRepositorySchema ==
  << Field("id", "number", FALSE), Field("name", "string", FALSE),
     Field("default_branch", "string", FALSE) >>

GitLabReferenceSchema == << Field("name", "string", FALSE) >>

NoIssue == ""

\* The message of the issue Zod raises for one field, NoIssue when it is valid.
ZodFieldIssue(f, v) ==
  IF v.t = "undefined"
  THEN (IF f.optional THEN NoIssue ELSE "Required")
  ELSE IF f.type = "enum"
  THEN (IF v.t # "string"
        THEN "Expected 'private' | 'internal' | 'public', received " \o v.t
        ELSE IF v.s \notin VisibilityValues
        THEN "Invalid enum value. Expected 'private' | 'internal' | 'public', received '"
             \o v.s \o "'"
        ELSE NoIssue)
  ELSE IF f.type = "numberOrString"
  THEN (IF v.t \in {"number", "string"} THEN NoIssue ELSE "Invalid input")
  ELSE IF v.t # f.type THEN "Expected " \o f.type \o ", received " \o v.t
  ELSE NoIssue

\* ZodError.errors of Schema.parse(obj): one issue per violated field, in the
\* order of the schema's shape; <<>> when the object is valid.
RECURSIVE ZodIssues(_, _)
ZodIssues(schema, obj) ==
  IF schema = <<>> THEN <<>>
  ELSE LET f == Head(schema)
           m == ZodFieldIssue(f, Lookup(obj, f.name))
       IN (IF m = NoIssue THEN <<>> ELSE << [path |-> f.name, message |-> m] >>)
          \o ZodIssues(Tail(schema), obj)

\* The value Schema.parse returns for a valid object: the schema's keys, in
\* the schema's order, unknown keys stripped.
RECURSIVE ZodParsed(_, _)
ZodParsed(schema, obj) ==
  IF schema = <<>> THEN <<>>
  ELSE LET f == Head(schema)
           v == Lookup(obj, f.name)
       IN (IF v.t = "undefined" THEN <<>> ELSE << <<f.name, v>> >>)
          \o ZodParsed(Tail(schema), obj)

\* GitLabContentSchema.parse(body) for an object body: the union of the file
\* schema and an array of directory entries; its one issue carries the issues
\* of both alternatives.
GitLabContentIssues(obj) ==
  LET asFile == ZodIssues(GitLabFileContentSchema, obj)
  IN IF asFile = <<>> THEN <<>>
     ELSE << [path |-> "", message |-> "Invalid input",
              unionErrors |-> asFile \o << [path |-> "",
                                            message |-> "Expected array, received object"] >>] >>

ZodIssueJson(e) == "{\"path\":[\"" \o e.path \o "\"],\"message\":\"" \o e.message \o "\"}"

\* ZodError.message: the JSON text of the issues, nested union issues included.
ZodErrorText(issues) ==
  Join([i \in 1..Len(issues) |->
          IF "unionErrors" \in DOMAIN issues[i]
          THEN ZodIssueJson(issues[i]) \o ",\"unionErrors\":["
               \o Join([j \in 1..Len(issues[i].unionErrors) |->
                          ZodIssueJson(issues[i].unionErrors[j])], ",") \o "]"
          ELSE ZodIssueJson(issues[i])], ",")

----------------------------------------------------------------------------
(* The tool catalog of the call handler                                    *)

\* One entry of the list-tools result. inputSchema is zodToJsonSchema(X), which
\* is a function of the schema object X alone: it is kept by the name of X.
Tool(name, schema) == [name |-> name, inputSchema |-> schema]

\* Faulty variant of ListedTools: reset_time_estimate is advertised with the
\* schema of set_time_estimate.
ListedTools_StaleSchema ==
  <<
     Tool("create_or_update_file", "CreateOrUpdateFileSchema"),
     Tool("search_repositories", "SearchRepositoriesSchema"),
     Tool("create_repository", "CreateRepositorySchema"),
     Tool("get_file_contents", "GetFileContentsSchema"),
     Tool("push_files", "PushFilesSchema"),
     Tool("create_issue", "CreateIssueSchema"),
     Tool("create_merge_request", "CreateMergeRequestSchema"),
     Tool("fork_repository", "ForkRepositorySchema"),
     Tool("create_branch", "CreateBranchSchema"),
     Tool("delete_project", "DeleteProjectSchema"),
     Tool("update_project", "UpdateProjectSchema"),
     Tool("get_issues", "GetIssuesSchema"),
     Tool("get_issue", "GetIssueSchema"),
     Tool("get_issue_time_stats", "GetTimeStatsSchema"),
     Tool("set_time_estimate", "TimeTrackingSchema"),
     Tool("reset_time_estimate", "TimeTrackingSchema"),
     Tool("add_spent_time", "TimeTrackingSchema"),
     Tool("reset_spent_time", "GetTimeStatsSchema"),
     Tool("get_notes", "GetNotesSchema"),
     Tool("create_note", "CreateNoteSchema"),
     Tool("update_note", "UpdateNoteSchema"),
     Tool("delete_note", "DeleteNoteSchema"),
     Tool("update_issue", "UpdateIssueSchema"),
     Tool("close_issue", "IssueStateUpdateSchema"),
     Tool("reopen_issue", "IssueStateUpdateSchema"),
     Tool("get_project_labels", "GetProjectLabelsSchema"),
     Tool("create_project_label", "CreateProjectLabelSchema"),
     Tool("update_project_label", "UpdateProjectLabelSchema"),
     Tool("delete_project_label", "DeleteProjectLabelSchema"),
     Tool("add_labels_to_issue", "ManageIssueLabelsSchema"),
     Tool("remove_labels_from_issue", "ManageIssueLabelsSchema"),
     Tool("get_project_milestones", "GetProjectMilestonesSchema"),
     Tool("create_project_milestone", "CreateProjectMilestoneSchema"),
     Tool("assign_issue", "AssignIssueSchema"),
     Tool("unassign_issue", "UnassignIssueSchema"),
     Tool("create_issue_link", "CreateIssueLinkSchema"),
     Tool("delete_issue_link", "DeleteIssueLinkSchema")
  >>

\* The tools array the list-tools handler returns, in source order.
ListedTools ==
  <<
     Tool("create_or_update_file", "CreateOrUpdateFileSchema"),
     Tool("search_repositories", "SearchRepositoriesSchema"),
     Tool("create_repository", "CreateRepositorySchema"),
     Tool("get_file_contents", "GetFileContentsSchema"),
     Tool("push_files", "PushFilesSchema"),
     Tool("create_issue", "CreateIssueSchema"),
     Tool("create_merge_request", "CreateMergeRequestSchema"),
     Tool("fork_repository", "ForkRepositorySchema"),
     Tool("create_branch", "CreateBranchSchema"),
     Tool("delete_project", "DeleteProjectSchema"),
     Tool("update_project", "UpdateProjectSchema"),
     Tool("get_issues", "GetIssuesSchema"),
     Tool("get_issue", "GetIssueSchema"),
     Tool("get_issue_time_stats", "GetTimeStatsSchema"),
     Tool("set_time_estimate", "TimeTrackingSchema"),
     Tool("reset_time_estimate", "GetTimeStatsSchema"),
     Tool("add_spent_time", "TimeTrackingSchema"),
     Tool("reset_spent_time", "GetTimeStatsSchema"),
     Tool("get_notes", "GetNotesSchema"),
     Tool("create_note", "CreateNoteSchema"),
     Tool("update_note", "UpdateNoteSchema"),
     Tool("delete_note", "DeleteNoteSchema"),
     Tool("update_issue", "UpdateIssueSchema"),
     Tool("close_issue", "IssueStateUpdateSchema"),
     Tool("reopen_issue", "IssueStateUpdateSchema"),
     Tool("get_project_labels", "GetProjectLabelsSchema"),
     Tool("create_project_label", "CreateProjectLabelSchema"),
     Tool("update_project_label", "UpdateProjectLabelSchema"),
     Tool("delete_project_label", "DeleteProjectLabelSchema"),
     Tool("add_labels_to_issue", "ManageIssueLabelsSchema"),
     Tool("remove_labels_from_issue", "ManageIssueLabelsSchema"),
     Tool("get_project_milestones", "GetProjectMilestonesSchema"),
     Tool("create_project_milestone", "CreateProjectMilestoneSchema"),
     Tool("assign_issue", "AssignIssueSchema"),
     Tool("unassign_issue", "UnassignIssueSchema"),
     Tool("create_issue_link", "CreateIssueLinkSchema"),
     Tool("delete_issue_link", "DeleteIssueLinkSchema")
  >>

\* One case of the call handler's switch: its label and the schema its body
\* parses the arguments with.
Case(label, schema) == [label |-> label, schema |-> schema]

\* The cases of the call handler's switch, in source order.
SwitchCases ==
  <<
     Case("fork_repository", "ForkRepositorySchema"),
     Case("create_branch", "CreateBranchSchema"),
     Case("search_repositories", "SearchRepositoriesSchema"),
     Case("create_repository", "CreateRepositorySchema"),
     Case("get_file_contents", "GetFileContentsSchema"),
     Case("create_or_update_file", "CreateOrUpdateFileSchema"),
     Case("push_files", "PushFilesSchema"),
     Case("create_issue", "CreateIssueSchema"),
     Case("create_merge_request", "CreateMergeRequestSchema"),
     Case("delete_project", "DeleteProjectSchema"),
     Case("update_project", "UpdateProjectSchema"),
     Case("get_issues", "GetIssuesSchema"),
     Case("get_issue", "GetIssueSchema"),
     Case("get_issue_time_stats", "GetTimeStatsSchema"),
     Case("set_time_estimate", "TimeTrackingSchema"),
     Case("reset_time_estimate", "GetTimeStatsSchema"),
     Case("add_spent_time", "TimeTrackingSchema"),
     Case("reset_spent_time", "GetTimeStatsSchema"),
     Case("get_notes", "GetNotesSchema"),
     Case("create_note", "CreateNoteSchema"),
     Case("update_note", "UpdateNoteSchema"),
     Case("delete_note", "DeleteNoteSchema"),
     Case("update_issue", "UpdateIssueSchema"),
     Case("close_issue", "IssueStateUpdateSchema"),
     Case("reopen_issue", "IssueStateUpdateSchema"),
     Case("get_project_labels", "GetProjectLabelsSchema"),
     Case("create_project_label", "CreateProjectLabelSchema"),
     Case("update_project_label", "UpdateProjectLabelSchema"),
     Case("delete_project_label", "DeleteProjectLabelSchema"),
     Case("add_labels_to_issue", "ManageIssueLabelsSchema"),
     Case("remove_labels_from_issue", "ManageIssueLabelsSchema"),
     Case("get_project_milestones", "GetProjectMilestonesSchema"),
     Case("create_project_milestone", "CreateProjectMilestoneSchema"),
     Case("assign_issue", "AssignIssueSchema"),
     Case("unassign_issue", "UnassignIssueSchema"),
     Case("create_issue_link", "CreateIssueLinkSchema"),
     Case("delete_issue_link", "DeleteIssueLinkSchema")
  >>

\* The case labels of the call handler's switch.
RegisteredTools == { SwitchCases[i].label : i \in 1..Len(SwitchCases) }

\* The schema the first case matching the name parses the arguments with.
CaseSchema(name) ==
  LET matching == { i \in 1..Len(SwitchCases) : SwitchCases[i].label = name }
  IN IF matching = {} THEN ""
     ELSE SwitchCases[CHOOSE i \in matching : \A j \in matching : i <= j].schema

\* The tools whose handlers the model executes.
ModelledTools == { "create_repository", "create_branch", "delete_project" }

\* Names no case of the switch matches.
UnregisteredNames == { "list_pipelines" }

\* The schema objects the model gives a structure to; the others are
\* represented by the project parameters they all start with.
SchemaNamed(id) ==
  CASE id = "CreateRepositorySchema" -> CreateRepositorySchema
    [] id = "CreateBranchSchema" -> CreateBranchSchema
    [] id = "DeleteProjectSchema" -> DeleteProjectSchema
    [] id = "CreateOrUpdateFileSchema" -> CreateOrUpdateFileSchema
    [] id = "ManageIssueLabelsSchema" -> ManageIssueLabelsSchema
    [] id = "GetFileContentsSchema" -> GetFileContentsSchema
    [] id = "TimeTrackingSchema" -> TimeTrackingSchema
    [] id = "DeleteNoteSchema" -> DeleteNoteSchema
    [] OTHER -> ProjectParamsSchema

\* The schema a tool's case validates the arguments against.
InputSchema(name) == SchemaNamed(CaseSchema(name))

----------------------------------------------------------------------------
(* HTTP requests and responses                                             *)

GITLAB_API_URL == "https://gitlab.com/api/v4"

\* encodeURIComponent on one character (the characters the model's inputs use).
EncodeChar(ch) ==
  CASE ch = "/" -> "%2F"
    [] ch = " " -> "%20"
    [] ch = "#" -> "%23"
    [] ch = "%" -> "%25"
    [] ch = "?" -> "%3F"
    [] OTHER -> ch

RECURSIVE EncodeURIComponent(_)
EncodeURIComponent(s) ==
  IF Len(s) = 0 THEN ""
  ELSE EncodeChar(SubSeq(s, 1, 1)) \o EncodeURIComponent(SubSeq(s, 2, Len(s)))

RECURSIVE ReplaceAll(_, _, _)
ReplaceAll(s, from, to) ==
  IF Len(s) < Len(from) THEN s
  ELSE IF SubSeq(s, 1, Len(from)) = from
  THEN to \o ReplaceAll(SubSeq(s, Len(from) + 1, Len(s)), from, to)
  ELSE SubSeq(s, 1, 1) \o ReplaceAll(SubSeq(s, 2, Len(s)), from, to)

\* Faulty variant of EncodeGitLabPath: the slashes stay escaped.
EncodeGitLabPath_Whole(filePath) == EncodeURIComponent(filePath)

\* encodeURIComponent(filePath).replace(/%2F/g, '/')
EncodeGitLabPath(filePath) == ReplaceAll(EncodeURIComponent(filePath), "%2F", "/")

\* timeoutMs of a request that is not raced against a timer.
NoTimeout == 0

\* A fetch(url, {method, headers, body}) call; timeoutMs is the ceiling of the
\* withTimeout race around it, NoTimeout when the fetch is awaited bare.
Request(method, url, contentType, body, timeoutMs) ==
  [method |-> method, url |-> url, contentType |-> contentType, body |-> body,
   timeoutMs |-> timeoutMs]

JsonBody(obj) == [fmt |-> "json", obj |-> obj, text |-> ""]
TextBody(text) == [fmt |-> "text", obj |-> <<>>, text |-> text]

\* retryAfter is the retry-after header's text, "" when the header is absent.
Response(status, statusText, retryAfter, body) ==
  [status |-> status, statusText |-> statusText, retryAfter |-> retryAfter,
   body |-> body]

ResponseOk(resp) == resp.status >= 200 /\ resp.status <= 299

RepositoryBody ==
  << <<"id", Num("1")>>, <<"name", Str("demo")>>, <<"visibility", Str("private")>>,
     <<"default_branch", Str("main")>> >>

MalformedBody == << <<"id", Str("1")>>, <<"default_branch", Num("0")>> >>

\* What GitLab may answer to a request of a tool handler.
HandlerResponses ==
  { Response(201, "Created", "", JsonBody(RepositoryBody)),
    Response(200, "OK", "", JsonBody(MalformedBody)),
    Response(200, "OK", "", TextBody("<html>")),
    Response(202, "Accepted", "", JsonBody(<< <<"message", Str("202 Accepted")>> >>)),
    Response(204, "No Content", "", TextBody("")),
    Response(404, "Not Found", "", JsonBody(<< <<"message", Str("404 Project Not Found")>> >>)),
    Response(401, "Unauthorized", "", JsonBody(<< <<"error", Str("invalid_token")>> >>)),
    Response(429, "Too Many Requests", "1", TextBody("Retry later")) }

----------------------------------------------------------------------------
(* Errors                                                                  *)

NoError == [class |-> "none", code |-> "", message |-> "", issues |-> <<>>]
PlainError(message) ==
  [class |-> "Error", code |-> "", message |-> message, issues |-> <<>>]
ZodError(issues) ==
  [class |-> "ZodError", code |-> "", message |-> "", issues |-> issues]
McpError(code, message) ==
  [class |-> "McpError", code |-> code, message |-> message, issues |-> <<>>]

\* `${value}` in a template literal.
RECURSIVE TemplateText(_)
TemplateText(v) ==
  CASE v.t = "object" -> "[object Object]"
    [] v.t = "array" -> Join([i \in 1..Len(v.items) |-> TemplateText(v.items[i])], ",")
    [] v.t = "undefined" -> "undefined"
    [] OTHER -> v.s

\* await response.text(): the body as the server sent it.
ResponseText(resp) ==
  IF resp.body.fmt = "json" THEN JSONStringify(resp.body.obj) ELSE resp.body.text

\* The message of the Error handleApiError throws for a non-2xx response: a
\* message that is not a string has no includes method, and the TypeError is
\* caught by the block that appends the raw text.
HandleApiErrorMessage(resp) ==
  LET base == "GitLab API error (" \o ToString(resp.status) \o "): " \o resp.statusText
      msg == Lookup(resp.body.obj, "message")
      err == Lookup(resp.body.obj, "error")
  IN IF resp.body.fmt = "json"
     THEN (IF Truthy(msg)
           THEN IF msg.t = "string"
                THEN base \o " - " \o msg.s
                     \o (IF Includes(msg.s, "file_path") /\ resp.status = 400
                         THEN ". Make sure the file path is correct and properly formatted. Remember that paths are case-sensitive."
                         ELSE "")
                ELSE base \o " - " \o TemplateText(msg) \o " - " \o ResponseText(resp)
           ELSE IF Truthy(err) THEN base \o " - " \o TemplateText(err)
           ELSE base)
     ELSE (IF resp.body.text # "" THEN base \o " - " \o resp.body.text ELSE base)

IssueTexts(issues) ==
  [i \in 1..Len(issues) |-> issues[i].path \o ": " \o issues[i].message]

\* Faulty variant of CatchToolError: only the first issue of a ZodError is reported.
CatchToolError_FirstIssue(err) ==
  IF err.class = "ZodError"
  THEN McpError("InvalidParams", "Invalid parameters: " \o IssueTexts(err.issues)[1])
  ELSE IF err.class = "McpError" THEN err
  ELSE McpError("InternalError", "Tool execution failed: " \o err.message)

\* Faulty variant of CatchToolError: the original message is dropped.
CatchToolError_DropMessage(err) ==
  IF err.class = "ZodError"
  THEN McpError("InvalidParams",
                "Invalid parameters: " \o Join(IssueTexts(err.issues), ", "))
  ELSE IF err.class = "McpError" THEN err
  ELSE McpError("InternalError", "Tool execution failed")

\* error.message
ErrorMessage(err) == IF err.class = "ZodError" THEN ZodErrorText(err.issues) ELSE err.message

\* The catch block of the call handler: the McpError it throws for a caught error.
CatchToolError(err) ==
  IF err.class = "ZodError"
  THEN McpError("InvalidParams",
                "Invalid parameters: " \o Join(IssueTexts(err.issues), ", "))
  ELSE IF err.class = "McpError" THEN err
  ELSE McpError("InternalError", "Tool execution failed: " \o err.message)

\* The catch block of the call handler of build 1.2.0 (src/src/index.ts): the
\* Error it throws for a caught error.
CatchToolError120(err) ==
  IF err.class = "ZodError"
  THEN PlainError("Invalid arguments: " \o Join(IssueTexts(err.issues), ", "))
  ELSE err


----------------------------------------------------------------------------
(* Tool handlers: the requests they issue                                  *)

ProjectUrl(projectId) == GITLAB_API_URL \o "/projects/" \o EncodeURIComponent(projectId)

\* Members of a request body whose value is undefined are dropped by JSON.stringify.
RECURSIVE Defined(_)
Defined(obj) ==
  IF obj = <<>> THEN <<>>
  ELSE (IF Head(obj)[2].t = "undefined" THEN <<>> ELSE << Head(obj) >>)
       \o Defined(Tail(obj))

\* createRepository: POST /projects
CreateRepositoryRequest(options) ==
  Request("POST", GITLAB_API_URL \o "/projects", TRUE,
          Defined(<< <<"name", Lookup(options, "name")>>,
                     <<"visibility", Lookup(options, "visibility")>> >>),
          NoTimeout)

\* getDefaultBranchRef: GET /projects/:id, no content type, no body
GetDefaultBranchRefRequest(projectId) ==
  Request("GET", ProjectUrl(projectId), FALSE, <<>>, NoTimeout)

\* createBranch: POST /projects/:id/repository/branches
CreateBranchRequest(projectId, name, ref) ==
  Request("POST", ProjectUrl(projectId) \o "/repository/branches", TRUE,
          Defined(<< <<"branch", name>>, <<"ref", ref>> >>), NoTimeout)

\* deleteProject: DELETE /projects/:id
DeleteProjectRequest(projectId) ==
  Request("DELETE", ProjectUrl(projectId), TRUE, <<>>, NoTimeout)

FileUrl(projectId, filePath) ==
  ProjectUrl(projectId) \o "/repository/files/" \o EncodeGitLabPath(filePath)

\* getFileContents: GET /projects/:id/repository/files/:path[?ref=...]
GetFileContentsRequest(projectId, filePath, ref) ==
  Request("GET",
          FileUrl(projectId, filePath)
          \o (IF Truthy(ref) THEN "?ref=" \o EncodeURIComponent(ref.s) ELSE ""),
          FALSE, <<>>, NoTimeout)

\* createOrUpdateFile: POST or PUT /projects/:id/repository/files/:path
CreateOrUpdateFileRequest(v, method) ==
  Request(method, FileUrl(Lookup(v, "project_id").s, Lookup(v, "file_path").s), TRUE,
          << <<"branch", Lookup(v, "branch")>>, <<"content", Lookup(v, "content")>>,
             <<"commit_message", Lookup(v, "commit_message")>> >>
          \o (IF Truthy(Lookup(v, "previous_path"))
              THEN << <<"previous_path", Lookup(v, "previous_path")>> >> ELSE <<>>),
          NoTimeout)

\* `${GITLAB_API_URL}/projects/${encodeURIComponent(projectId)}/issues/${issueIid}`
\* (getIssue builds it through new URL(...).toString(), which leaves a URL
\* made of an encoded project id and an issue number as it is).
IssueUrl(projectId, issueIid) == ProjectUrl(projectId) \o "/issues/" \o issueIid.s

\* getIssue: GET /projects/:id/issues/:iid, no content type, no body
GetIssueRequest(projectId, issueIid) ==
  Request("GET", IssueUrl(projectId, issueIid), FALSE, <<>>, NoTimeout)

\* Faulty variant of UpdateIssueRequest (the atomic form the API offers): the
\* names are sent as add_labels, which GitLab merges into the labels it holds.
UpdateIssueRequest_AddLabels(projectId, issueIid, options) ==
  Request("PUT", IssueUrl(projectId, issueIid), TRUE,
          << <<"add_labels", Lookup(options, "labels")>> >>, NoTimeout)

\* updateIssue: PUT /projects/:id/issues/:iid with the options as body
UpdateIssueRequest(projectId, issueIid, options) ==
  Request("PUT", IssueUrl(projectId, issueIid), TRUE, Defined(options), NoTimeout)

\* URLSearchParams serialisation of one character: a space becomes "+".
FormEncodeChar(ch) == IF ch = " " THEN "+" ELSE EncodeChar(ch)

\* url.searchParams.append(name, value) on a URL without a query.
RECURSIVE FormEncode(_)
FormEncode(s) ==
  IF Len(s) = 0 THEN ""
  ELSE FormEncodeChar(SubSeq(s, 1, 1)) \o FormEncode(SubSeq(s, 2, Len(s)))

\* setTimeEstimate: POST /projects/:id/issues/:iid/time_estimate?duration=...,
\* with the Authorization header only and no body
SetTimeEstimateRequest(projectId, issueIid, duration) ==
  Request("POST",
          IssueUrl(projectId, issueIid) \o "/time_estimate?duration=" \o FormEncode(duration),
          FALSE, <<>>, NoTimeout)

\* deleteNote: DELETE /projects/:id/issues/:iid/notes/:note_id, with the
\* Authorization header only
DeleteNoteRequest(projectId, issueIid, noteId) ==
  Request("DELETE", IssueUrl(projectId, issueIid) \o "/notes/" \o noteId.s,
          FALSE, <<>>, NoTimeout)

\* typeof label === 'string' ? label : label.name
LabelName(label) == IF label.t = "string" THEN label.s ELSE Lookup(label.obj, "name").s

\* Array.isArray(issue.labels) ? issue.labels.map(...) : []
CurrentLabels(issue) ==
  LET labels == Lookup(issue, "labels")
  IN IF labels.t = "array"
     THEN [i \in 1..Len(labels.items) |-> LabelName(labels.items[i])]
     ELSE <<>>

\* [...new Set(seq)]: the first occurrence of every element, in order.
RECURSIVE SetOrder(_, _)
SetOrder(seq, seen) ==
  IF seq = <<>> THEN <<>>
  ELSE IF Head(seq) \in seen THEN SetOrder(Tail(seq), seen)
  ELSE << Head(seq) >> \o SetOrder(Tail(seq), seen \cup {Head(seq)})

\* Faulty variant of AddLabels: the two lists are joined without the Set.
AddLabels_NoSet(current, labels) == Join(current \o labels, ",")

\* [...new Set([...currentLabels, ...labels])].join(',')
AddLabels(current, labels) == Join(SetOrder(current \o labels, {}), ",")

\* currentLabels.filter(label => !labels.includes(label)).join(',')
RemoveLabels(current, labels) ==
  Join(SelectSeq(current, LAMBDA l : \A i \in 1..Len(labels) : labels[i] # l), ",")

----------------------------------------------------------------------------
(* One call-tool invocation                                                *)

NoResponse == Response(0, "", "", TextBody(""))
NoArgs == [present |-> FALSE, obj |-> <<>>]
Args(obj) == [present |-> TRUE, obj |-> obj]
NoOutcome == [kind |-> "none", code |-> "", message |-> "", content |-> <<>>]

IdleCall ==
  [pc |-> "idle", name |-> "", args |-> NoArgs, validated |-> <<>>,
   awaiting |-> "", reqs |-> <<>>, resps |-> <<>>, resp |-> NoResponse,
   ref |-> Undefined, caught |-> NoError, thrown |-> NoError, returned |-> <<>>,
   outcome |-> NoOutcome, version |-> "1.3.0"]

\* JavaScript !value for the arguments payload: only a missing payload is falsy.
ArgsMissing(args) == ~args.present

\* { content: [{ type: "text", text: JSON.stringify(value, null, 2) }] }
ToolResult(value) == << [type |-> "text", text |-> JSONStringifyPretty(value)] >>

\* The call handler's catch block ends the invocation with the error it throws:
\* an McpError in build 1.3.0, an Error in build 1.2.0.
Fail(call, err) ==
  LET e == IF call.version = "1.2.0" THEN CatchToolError120(err) ELSE CatchToolError(err)
  IN [call EXCEPT !.pc = "error", !.thrown = err,
                  !.outcome = [kind |-> "error", code |-> e.code,
                               message |-> e.message, content |-> <<>>]]

\* The case's return statement ends the invocation with the result envelope.
Succeed(call, value) ==
  [call EXCEPT !.pc = "responded", !.returned = value,
               !.outcome = [kind |-> "result", code |-> "", message |-> "",
                            content |-> ToolResult(value)]]

\* The handler awaits fetch(request) inside function fn.
Fetch(call, fn, request) ==
  [call EXCEPT !.pc = "fetch", !.awaiting = fn, !.reqs = Append(@, request)]

\* The argument payloads the transport may deliver for a schema: every field
\* absent, well-typed, or ill-typed (and ref possibly the empty string).
ArgKinds(f) ==
  IF f.name = "ref" THEN {"absent", "good", "bad", "empty"} ELSE {"absent", "good", "bad"}

GoodValue(f) ==
  CASE f.name = "project_id" -> Str("group/app")
    [] f.name = "branch" -> Str("feature")
    [] f.name = "ref" -> Str("develop")
    [] f.name = "name" -> Str("demo")
    [] f.name = "visibility" -> Str("private")
    [] OTHER -> Str("x")

ArgValue(f, kind) ==
  CASE kind = "good" -> GoodValue(f)
    [] kind = "bad" -> Num("7")
    [] kind = "empty" -> Str("")
    [] OTHER -> Undefined

RECURSIVE BuildArgs(_, _)
BuildArgs(schema, choice) ==
  IF schema = <<>> THEN <<>>
  ELSE LET f == Head(schema)
       IN (IF choice[f.name] = "absent" THEN <<>>
           ELSE << <<f.name, ArgValue(f, choice[f.name])>> >>)
          \o BuildArgs(Tail(schema), choice)

FieldNames(schema) == { schema[i].name : i \in 1..Len(schema) }

ArgPayloads(name) ==
  LET schema == InputSchema(name)
      kinds == UNION { ArgKinds(schema[i]) : i \in 1..Len(schema) }
      choices == { ch \in [FieldNames(schema) -> kinds] :
                     \A i \in 1..Len(schema) : ch[schema[i].name] \in ArgKinds(schema[i]) }
  IN { NoArgs } \cup { Args(BuildArgs(schema, ch)) : ch \in choices }


----------------------------------------------------------------------------
(* The call handler, step by step                                          *)

\* Faulty variant of DispatchStep: the tool name is looked up before the
\* arguments payload is checked.
DispatchStep_NameFirst(call) ==
  IF call.name \notin RegisteredTools
  THEN Fail(call, McpError("MethodNotFound", "Tool not found: " \o call.name))
  ELSE IF ArgsMissing(call.args)
  THEN Fail(call, McpError("InvalidParams", "Arguments are required"))
  ELSE [call EXCEPT !.pc = "validating"]

\* Faulty variant of DispatchStep: an unknown name throws a plain Error.
DispatchStep_PlainUnknown(call) ==
  IF ArgsMissing(call.args)
  THEN Fail(call, McpError("InvalidParams", "Arguments are required"))
  ELSE IF call.name \notin RegisteredTools
  THEN Fail(call, PlainError("Unknown tool: " \o call.name))
  ELSE [call EXCEPT !.pc = "validating"]

\* if (!args) throw ...; switch (name) { ... default: throw ... }
DispatchStep(call) ==
  IF ArgsMissing(call.args)
  THEN Fail(call, McpError("InvalidParams", "Arguments are required"))
  ELSE IF call.name \notin RegisteredTools
  THEN Fail(call, McpError("MethodNotFound", "Tool not found: " \o call.name))
  ELSE [call EXCEPT !.pc = "validating"]

\* Faulty variant of DispatchStep120: the tool name is looked up before the
\* arguments payload is checked.
DispatchStep120_NameFirst(call) ==
  IF call.name \notin RegisteredTools
  THEN Fail(call, PlainError("Unknown tool: " \o call.name))
  ELSE IF ArgsMissing(call.args)
  THEN Fail(call, PlainError("Arguments are required"))
  ELSE [call EXCEPT !.pc = "validating"]

\* Build 1.2.0: if (!request.params.arguments) throw ...;
\* switch (request.params.name) { ... default: throw ... }
DispatchStep120(call) ==
  IF ArgsMissing(call.args)
  THEN Fail(call, PlainError("Arguments are required"))
  ELSE IF call.name \notin RegisteredTools
  THEN Fail(call, PlainError("Unknown tool: " \o call.name))
  ELSE [call EXCEPT !.pc = "validating"]

\* The body of a case after its Schema.parse(args): the handler runs up to its
\* first fetch.
StartHandler(call) ==
  LET v == call.validated
      projectId == Lookup(v, "project_id").s
  IN CASE call.name = "create_repository" ->
            Fetch(call, "createRepository", CreateRepositoryRequest(v))
       [] call.name = "create_branch" ->
            IF ~Truthy(Lookup(v, "ref"))
            THEN Fetch(call, "getDefaultBranchRef", GetDefaultBranchRefRequest(projectId))
            ELSE Fetch([call EXCEPT !.ref = Lookup(v, "ref")], "createBranch",
                       CreateBranchRequest(projectId, Lookup(v, "branch"), Lookup(v, "ref")))
       [] call.name = "delete_project" ->
            Fetch(call, "deleteProject", DeleteProjectRequest(projectId))
       [] call.name = "set_time_estimate" ->
            Fetch(call, "setTimeEstimate",
                  SetTimeEstimateRequest(projectId, Lookup(v, "issue_iid"),
                                         Lookup(v, "duration").s))
       [] call.name = "delete_note" ->
            Fetch(call, "deleteNote",
                  DeleteNoteRequest(projectId, Lookup(v, "issue_iid"), Lookup(v, "note_id")))
       [] call.name = "get_file_contents" ->
            Fetch(call, "getFileContents",
                  GetFileContentsRequest(projectId, Lookup(v, "file_path").s,
                                         Lookup(v, "ref")))
       [] call.name = "create_or_update_file" ->
            Fetch(call, "getFileContents",
                  GetFileContentsRequest(projectId, Lookup(v, "file_path").s,
                                         Lookup(v, "branch")))
       [] call.name \in {"add_labels_to_issue", "remove_labels_from_issue"} ->
            Fetch(call, "getIssue", GetIssueRequest(projectId, Lookup(v, "issue_iid")))

\* Faulty variant of ValidateStep: the handler is started whatever the parse found.
ValidateStep_NoCheck(call) ==
  StartHandler([call EXCEPT !.validated = ZodParsed(InputSchema(call.name), call.args.obj)])

\* const validatedArgs = XSchema.parse(args); then the handler is called.
ValidateStep(call) ==
  LET schema == InputSchema(call.name)
      issues == ZodIssues(schema, call.args.obj)
  IN IF issues # <<>>
     THEN Fail(call, ZodError(issues))
     ELSE StartHandler([call EXCEPT !.validated = ZodParsed(schema, call.args.obj)])

LastRequest(call) == call.reqs[Len(call.reqs)]

\* The base64 alphabet, and the characters with codes 32 to 126 (with ? in the
\* place of the backquote, code 96).
Base64Alphabet == "ABCDEFGHIJKLMNOPQRSTUVWXYZabcdefghijklmnopqrstuvwxyz0123456789+/"
PrintableChars ==
  " !\"#$%&'()*+,-./0123456789:;<=>?@ABCDEFGHIJKLMNOPQRSTUVWXYZ[\\]^_?abcdefghijklmnopqrstuvwxyz{|}~"

\* The sextet a base64 character stands for; padding counts as zero.
Sextet(ch) ==
  IF ch = "=" THEN 0
  ELSE (CHOOSE i \in 1..Len(Base64Alphabet) : SubSeq(Base64Alphabet, i, i) = ch) - 1

\* String.fromCharCode for one byte (bytes outside 32..126 do not occur in the
\* model's bodies).
CharOfByte(b) == IF b >= 32 /\ b <= 126 THEN SubSeq(PrintableChars, b - 31, b - 31) ELSE "?"

\* Buffer.from(text, 'base64').toString('utf8'): four characters give three
\* bytes, less one byte for each padding character.
RECURSIVE Base64Decode(_)
Base64Decode(text) ==
  IF Len(text) < 4 THEN ""
  ELSE LET c(i) == SubSeq(text, i, i)
           n == Sextet(c(1)) * 262144 + Sextet(c(2)) * 4096 + Sextet(c(3)) * 64 + Sextet(c(4))
           bytes == << n \div 65536, (n \div 256) % 256, n % 256 >>
           kept == IF c(3) = "=" THEN 1 ELSE IF c(4) = "=" THEN 2 ELSE 3
       IN Join([i \in 1..kept |-> CharOfByte(bytes[i])], "")
          \o Base64Decode(SubSeq(text, 5, Len(text)))

\* if (!Array.isArray(data) && data.content) data.content = <decoded content>
DecodeContent(data) ==
  [i \in 1..Len(data) |->
     IF data[i][1] = "content" /\ Truthy(data[i][2])
     THEN <<"content", Str(Base64Decode(data[i][2].s))>>
     ELSE data[i]]

\* Faulty variant of ProbeFailed: every probe failure is taken as "no such file".
ProbeFailed_AlwaysCreate(call, err) ==
  Fetch([call EXCEPT !.caught = err], "createOrUpdateFile",
        CreateOrUpdateFileRequest(call.validated, "POST"))

\* The catch block of createOrUpdateFile around the getFileContents probe:
\* a failure that does not mention 404 and looks like a path error is rethrown
\* as an invalid-path error; any other failure leaves method = "POST".
ProbeFailed(call, err) ==
  LET message == ErrorMessage(err)
      caught == [call EXCEPT !.caught = err]
  IN IF ~Includes(message, "404")
        /\ (Includes(message, "file_path") \/ Includes(message, "Bad Request"))
     THEN Fail(caught, PlainError("Invalid file path format for '"
                                  \o Lookup(call.validated, "file_path").s
                                  \o "'. Make sure the path is correct and properly formatted."))
     ELSE Fetch(caught, "createOrUpdateFile",
                CreateOrUpdateFileRequest(call.validated, "POST"))

\* Faulty variant of Throw: a label handler takes a failed read of the issue as
\* an issue without labels and goes on to the update.
Throw_LabelsFromScratch(call, err) ==
  IF call.awaiting = "getFileContents" /\ call.name = "create_or_update_file"
  THEN ProbeFailed(call, err)
  ELSE IF call.awaiting = "getIssue"
  THEN Fetch(call, "updateIssue",
             UpdateIssueRequest(Lookup(call.validated, "project_id").s,
                                Lookup(call.validated, "issue_iid"),
                                << <<"labels", Str("")>> >>))
  ELSE Fail(call, err)

\* An error thrown inside the awaited function: the probe's errors are caught
\* by createOrUpdateFile, all others reach the call handler's catch block.
Throw(call, err) ==
  IF call.awaiting = "getFileContents" /\ call.name = "create_or_update_file"
  THEN ProbeFailed(call, err)
  ELSE Fail(call, err)

\* Faulty variant of OnFetchError: a rejected fetch ends the invocation even
\* inside the try block of createOrUpdateFile.
OnFetchError_Abort(call) ==
  Fail(call, PlainError("request to " \o LastRequest(call).url
                        \o " failed, reason: connect ECONNREFUSED"))

\* The awaited fetch rejects (DNS failure, connection refused or reset).
OnFetchError(call) ==
  Throw(call, PlainError("request to " \o LastRequest(call).url
                        \o " failed, reason: connect ECONNREFUSED"))

\* The awaited fetch resolves with a response: if (!response.ok) return
\* handleApiError(response); deleteProject returns at once on a 204.
OnResponse(call, resp) ==
  LET got == [call EXCEPT !.resps = Append(@, resp)]
  IN IF ~ResponseOk(resp)
     THEN Throw(got, PlainError(HandleApiErrorMessage(resp)))
     ELSE IF call.awaiting = "deleteProject" /\ resp.status = 204
     THEN Succeed(got, << <<"message", Str("Project deleted successfully")>> >>)
     ELSE IF call.awaiting = "deleteNote" /\ resp.status = 204
     THEN Succeed(got, << <<"message", Str("Note deleted successfully")>> >>)
     ELSE [got EXCEPT !.pc = "body", !.resp = resp]

\* Faulty variant of OnBody: the decoded body is returned as it is, without the
\* output schema.
OnBody_Unchecked(call) == Succeed(call, call.resp.body.obj)

\* await response.json() settles, and the handler goes on with the body.
OnBody(call) ==
  LET body == call.resp.body
      parsed(schema) == ZodParsed(schema, body.obj)
  IN IF call.awaiting = "deleteNote"
     THEN Succeed(call, << <<"message",
                             IF body.fmt # "json" THEN Str("Note deleted successfully")
                             ELSE IF HasKey(body.obj, "message")
                             THEN Str(TemplateText(Lookup(body.obj, "message")))
                             ELSE Str("Note deleted")>> >>)
     ELSE IF body.fmt # "json"
     THEN Throw(call, PlainError("invalid json response body at " \o LastRequest(call).url
                                 \o " reason: Unexpected token"))
     ELSE CASE call.awaiting = "createRepository" ->
                 IF ZodIssues(GitLabRepositorySchema, body.obj) # <<>>
                 THEN Fail(call, ZodError(ZodIssues(GitLabRepositorySchema, body.obj)))
                 ELSE Succeed(call, parsed(GitLabRepositorySchema))
            [] call.awaiting = "getDefaultBranchRef" ->
                 IF ZodIssues(GitLabRepositorySchema, body.obj) # <<>>
                 THEN Fail(call, ZodError(ZodIssues(GitLabRepositorySchema, body.obj)))
                 ELSE LET ref == Lookup(parsed(GitLabRepositorySchema), "default_branch")
                      IN Fetch([call EXCEPT !.ref = ref], "createBranch",
                               CreateBranchRequest(Lookup(call.validated, "project_id").s,
                                                   Lookup(call.validated, "branch"), ref))
            [] call.awaiting = "createBranch" ->
                 IF ZodIssues(GitLabReferenceSchema, body.obj) # <<>>
                 THEN Fail(call, ZodError(ZodIssues(GitLabReferenceSchema, body.obj)))
                 ELSE Succeed(call, parsed(GitLabReferenceSchema))
            [] call.awaiting = "deleteProject" ->
                 Succeed(call, << <<"message",
                                    IF HasKey(body.obj, "message")
                                    THEN Str(Lookup(body.obj, "message").s)
                                    ELSE Str("Project deleted")>> >>)
            [] call.awaiting = "setTimeEstimate" ->
                 IF ZodIssues(GitLabTimeStatsSchema, body.obj) # <<>>
                 THEN Fail(call, ZodError(ZodIssues(GitLabTimeStatsSchema, body.obj)))
                 ELSE Succeed(call, parsed(GitLabTimeStatsSchema))
            [] call.awaiting = "getFileContents" ->
                 IF GitLabContentIssues(body.obj) # <<>>
                 THEN Throw(call, ZodError(GitLabContentIssues(body.obj)))
                 ELSE IF call.name = "get_file_contents"
                 THEN Succeed(call, DecodeContent(parsed(GitLabFileContentSchema)))
                 ELSE Fetch(call, "createOrUpdateFile",
                            CreateOrUpdateFileRequest(call.validated, "PUT"))
            [] call.awaiting = "createOrUpdateFile" ->
                 IF ZodIssues(GitLabCreateUpdateFileResponseSchema, body.obj) # <<>>
                 THEN Fail(call, ZodError(ZodIssues(GitLabCreateUpdateFileResponseSchema,
                                                    body.obj)))
                 ELSE Succeed(call, parsed(GitLabCreateUpdateFileResponseSchema))
            [] call.awaiting = "getIssue" ->
                 IF ZodIssues(GitLabEnhancedIssueSchema, body.obj) # <<>>
                 THEN Fail(call, ZodError(ZodIssues(GitLabEnhancedIssueSchema, body.obj)))
                 ELSE LET current == CurrentLabels(parsed(GitLabEnhancedIssueSchema))
                          given == Lookup(call.validated, "labels").items
                          labels == [i \in 1..Len(given) |-> given[i].s]
                          updated == IF call.name = "add_labels_to_issue"
                                     THEN AddLabels(current, labels)
                                     ELSE RemoveLabels(current, labels)
                      IN Fetch(call, "updateIssue",
                               UpdateIssueRequest(Lookup(call.validated, "project_id").s,
                                                  Lookup(call.validated, "issue_iid"),
                                                  << <<"labels", Str(updated)>> >>))
            [] call.awaiting = "updateIssue" ->
                 IF ZodIssues(GitLabEnhancedIssueSchema, body.obj) # <<>>
                 THEN Fail(call, ZodError(ZodIssues(GitLabEnhancedIssueSchema, body.obj)))
                 ELSE Succeed(call, parsed(GitLabEnhancedIssueSchema))

----------------------------------------------------------------------------
(* The server process: module load, main, signal and error handlers        *)

\* Number of termination signals the process is sent.
MaxSignals == 1

\* process.env.GITLAB_PERSONAL_ACCESS_TOKEN: unset, empty, or a token.
TokenValues == { Undefined, Str(""), Str("glpat-token") }

\* phase: loading (the module body has not run), connecting (main awaits
\* server.connect), running, exited. handlers: main has registered the signal
\* and error handlers. closing: server.close() calls in progress. closed: the
\* transport has been closed. tools: the catalog the last list-tools request was
\* answered with. stderr: the lines the logger has written.
LoadingProcess(token) ==
  [phase |-> "loading", token |-> token, handlers |-> FALSE, connected |-> FALSE,
   closing |-> 0, closed |-> FALSE, signals |-> 0, listed |-> FALSE,
   tools |-> <<>>, exitCode |-> -1, cause |-> "", stderr |-> <<>>]

Log(p, level, message) ==
  [p EXCEPT !.stderr = Append(@, "[DXT-GitLab] " \o level \o ": " \o message)]

\* process.exit(code)
Exit(p, code, cause) == [p EXCEPT !.phase = "exited", !.exitCode = code, !.cause = cause]

\* Faulty variant of CredentialMissing: only an unset variable counts as missing.
CredentialMissing_UnsetOnly(token) == token.t = "undefined"

\* !GITLAB_PERSONAL_ACCESS_TOKEN
CredentialMissing(token) == ~Truthy(token)

\* The module body: the credential check, then main() up to its
\* await server.connect(transport).
OnLoad(p) ==
  IF CredentialMissing(p.token)
  THEN Exit(Log(Log(p, "ERROR", "GITLAB_PERSONAL_ACCESS_TOKEN environment variable is not set"),
                "INFO", "Please set your GitLab personal access token in the environment or through the DXT configuration"),
            1, "credential")
  ELSE [Log(p, "INFO", "GitLab MCP Server starting with API URL: " \o GITLAB_API_URL)
          EXCEPT !.phase = "connecting", !.handlers = TRUE]

\* await server.connect(transport) resolves.
OnConnected(p) ==
  [Log(p, "INFO", "GitLab MCP Server (DXT) started successfully")
     EXCEPT !.phase = "running", !.connected = TRUE]

\* await server.connect(transport) rejects: the catch block of main.
OnConnectFailed(p) == Exit(Log(p, "ERROR", "Failed to start server:"), 1, "connect")

\* Faulty variant of OnSignal: the handler exits without awaiting the close.
OnSignal_ExitFirst(p) ==
  Exit([Log(p, "INFO", "Shutting down GitLab MCP Server...")
          EXCEPT !.signals = @ + 1, !.closing = @ + 1], 0, "signal")

\* The SIGINT / SIGTERM handler up to its await server.close().
OnSignal(p) ==
  [Log(p, "INFO", "Shutting down GitLab MCP Server...")
     EXCEPT !.signals = @ + 1, !.closing = @ + 1]

\* server.close() resolves and the signal handler goes on to process.exit(0).
OnClosed(p) ==
  Exit([p EXCEPT !.closing = @ - 1, !.closed = TRUE, !.connected = FALSE], 0, "signal")

\* The uncaughtException and unhandledRejection handlers.
OnFatal(p, kind) ==
  Exit(Log(p, "ERROR", IF kind = "uncaughtException" THEN "Uncaught exception:"
                       ELSE "Unhandled rejection at: [object Promise], reason: Error"),
       1, kind)

StartedProcess == OnConnected(OnLoad(LoadingProcess(Str("glpat-token"))))

Alive == proc.phase # "exited"

LoadModule ==
  /\ proc.phase = "loading"
  /\ proc' = OnLoad(proc)
  /\ UNCHANGED <<calls, mk, remote>>

ConnectResolves ==
  /\ proc.phase = "connecting"
  /\ proc' = OnConnected(proc)
  /\ UNCHANGED <<calls, mk, remote>>

ConnectRejects ==
  /\ proc.phase = "connecting"
  /\ proc' = OnConnectFailed(proc)
  /\ UNCHANGED <<calls, mk, remote>>

\* The operating system delivers SIGINT or SIGTERM to the started process.
Signal ==
  /\ Alive
  /\ proc.handlers
  /\ proc.signals < MaxSignals
  /\ proc' = OnSignal(proc)
  /\ UNCHANGED <<calls, mk, remote>>

CloseResolves ==
  /\ Alive
  /\ proc.closing > 0
  /\ proc' = OnClosed(proc)
  /\ UNCHANGED <<calls, mk, remote>>

\* server.close() rejects inside the async signal handler: an unhandled rejection.
CloseRejects ==
  /\ Alive
  /\ proc.closing > 0
  /\ proc' = OnFatal([proc EXCEPT !.closing = @ - 1], "unhandledRejection")
  /\ UNCHANGED <<calls, mk, remote>>

\* An error outside the request path reaches the process-level handlers.
Fatal(kind) ==
  /\ Alive
  /\ proc.handlers
  /\ proc' = OnFatal(proc, kind)
  /\ UNCHANGED <<calls, mk, remote>>

\* The list-tools handler serves a request.
ListTools ==
  /\ Alive
  /\ proc.connected
  /\ ~proc.listed
  /\ proc' = [proc EXCEPT !.listed = TRUE, !.tools = ListedTools]
  /\ UNCHANGED <<calls, mk, remote>>

----------------------------------------------------------------------------
(* Actions of the dispatcher                                               *)

\* Faulty variant of CallFrame: the validated arguments are kept in one
\* module-level variable, which holds those of the run that validated last.
CallFrame_SharedArgs(cs, c) ==
  LET others == { d \in DOMAIN cs : d # c /\ cs[d].name = cs[c].name
                                     /\ cs[d].validated # <<>> }
  IN IF others = {} \/ cs[c].pc \in {"received", "validating"} THEN cs[c]
     ELSE [cs[c] EXCEPT !.validated = cs[CHOOSE d \in others : TRUE].validated]

\* The locals of run c of the call handler (name, args, validatedArgs, the
\* handler's parameters and locals): every run has its own.
CallFrame(cs, c) == cs[c]

\* The transport delivers a call-tool request; invocations arrive in order.
Receive(c, name, args) ==
  /\ Alive
  /\ proc.connected
  /\ calls[c].pc = "idle"
  /\ \A d \in DOMAIN calls : d < c => calls[d].pc # "idle"
  /\ calls' = [calls EXCEPT ![c] = [IdleCall EXCEPT !.pc = "received", !.name = name,
                                                    !.args = args]]
  /\ UNCHANGED <<mk, proc, remote>>

Dispatch(c) ==
  /\ Alive
  /\ calls[c].pc = "received"
  /\ calls' = [calls EXCEPT ![c] = DispatchStep(CallFrame(calls, c))]
  /\ UNCHANGED <<mk, proc, remote>>

Validate(c) ==
  /\ Alive
  /\ calls[c].pc = "validating"
  /\ calls' = [calls EXCEPT ![c] = ValidateStep(CallFrame(calls, c))]
  /\ UNCHANGED <<mk, proc, remote>>

FetchRejects(c) ==
  /\ Alive
  /\ calls[c].pc = "fetch"
  /\ calls' = [calls EXCEPT ![c] = OnFetchError(CallFrame(calls, c))]
  /\ UNCHANGED <<mk, proc, remote>>

FetchResolves(c, resp) ==
  /\ Alive
  /\ calls[c].pc = "fetch"
  /\ calls' = [calls EXCEPT ![c] = OnResponse(CallFrame(calls, c), resp)]
  /\ UNCHANGED <<mk, proc, remote>>

BodyDecoded(c) ==
  /\ Alive
  /\ calls[c].pc = "body"
  /\ calls' = [calls EXCEPT ![c] = OnBody(CallFrame(calls, c))]
  /\ UNCHANGED <<mk, proc, remote>>

\* The per-call state of the dispatcher's state machine.
State(call) ==
  CASE call.pc = "idle" -> "Idle"
    [] call.pc = "received" -> "Received"
    [] call.pc = "validating" -> "Validating"
    [] call.pc = "fetch" -> "Executing"
    [] call.pc = "body" ->
         IF call.awaiting \in {"getDefaultBranchRef", "getFileContents", "getIssue"}
         THEN "Executing" ELSE "ValidatingOutput"
    [] call.pc = "error" -> "Error"
    [] call.pc = "responded" -> "Responded"

----------------------------------------------------------------------------
(* makeGitLabRequest: one call of the retry wrapper                        *)

\* retries: number = 3
DefaultRetries == 3

\* withTimeout(fetch(...), 30000)
RequestTimeoutMs == 30000

\* Largest numeric retry-after header value GitLab sends in the model.
MaxRetryAfter == 2

\* The value of a not-a-number result.
NaN == -1

DigitValue(ch) ==
  CASE ch = "0" -> 0 [] ch = "1" -> 1 [] ch = "2" -> 2 [] ch = "3" -> 3 [] ch = "4" -> 4
    [] ch = "5" -> 5 [] ch = "6" -> 6 [] ch = "7" -> 7 [] ch = "8" -> 8 [] ch = "9" -> 9
    [] OTHER -> NaN

RECURSIVE ParseDigits(_, _)
ParseDigits(s, acc) ==
  IF Len(s) = 0 \/ DigitValue(SubSeq(s, 1, 1)) = NaN THEN acc
  ELSE ParseDigits(SubSeq(s, 2, Len(s)), 10 * acc + DigitValue(SubSeq(s, 1, 1)))

\* parseInt(s): the value of the leading decimal digits, NaN when there are none.
ParseInt(s) ==
  IF Len(s) = 0 \/ DigitValue(SubSeq(s, 1, 1)) = NaN THEN NaN ELSE ParseDigits(s, 0)

\* x * 1000 in JavaScript arithmetic (NaN stays NaN).
TimesThousand(x) == IF x = NaN THEN NaN ELSE x * 1000

\* Faulty variant of RetryAfterMs: no default for an absent header.
RetryAfterMs_NoDefault(resp) == TimesThousand(ParseInt(resp.retryAfter))

\* parseInt(response.headers.get('retry-after') || '60') * 1000
RetryAfterMs(resp) ==
  TimesThousand(ParseInt(IF resp.retryAfter = "" THEN "60" ELSE resp.retryAfter))

\* Faulty variant of BackoffMs: the same delay after every attempt.
BackoffMs_Flat(attempt) == 1000

\* 1000 * attempt
BackoffMs(attempt) == 1000 * attempt

\* Faulty variant of WithTimeoutMessage: a timeout reported as an HTTP-status error.
WithTimeoutMessage_AsStatus(timeoutMs) == "GitLab API error (408): Request Timeout"

\* withTimeout: the message of the Error the timer rejects with.
WithTimeoutMessage(timeoutMs) == "Operation timed out after " \o ToString(timeoutMs) \o "ms"

\* errors[i] is the message of the error the catch block caught on attempt i,
\* "" while it has caught none. pending: the attempts whose fetch promise has
\* not settled; late: the attempts whose fetch settled after their timer fired.
MkIdle ==
  [phase |-> "idle", method |-> "", attempt |-> 0, reqs |-> <<>>, sleeps |-> <<>>,
   outcomes |-> <<>>, resp |-> NoResponse, errors |-> [i \in 1..DefaultRetries |-> ""],
   error |-> "", result |-> <<>>, pending |-> {}, late |-> {}]

MkUrl == GITLAB_API_URL \o "/projects"

\* fetch(url, {...options, headers}) raced against the 30000 ms timer; the
\* headers always carry Content-Type: application/json.
MkFetch(m, attempt) ==
  [m EXCEPT !.phase = "fetch", !.attempt = attempt, !.pending = @ \cup {attempt},
            !.reqs = Append(@, Request(m.method, MkUrl, TRUE, <<>>, RequestTimeoutMs))]

\* catch (error) { if (attempt === retries) throw error; sleep 1000 * attempt }
MkCatch(m, message) ==
  LET caught == [m EXCEPT !.errors[m.attempt] = message]
  IN IF m.attempt = DefaultRetries
     THEN [caught EXCEPT !.phase = "thrown", !.error = message]
     ELSE [caught EXCEPT !.phase = "sleep", !.sleeps = Append(@, BackoffMs(m.attempt))]

\* The message built for a non-2xx response (the body appended when it is JSON).
MkErrorMessage(resp) ==
  "GitLab API error (" \o ToString(resp.status) \o "): " \o resp.statusText
  \o (IF resp.body.fmt = "json" THEN " - " \o JSONStringify(resp.body.obj) ELSE "")

\* Faulty variant of MkOnResponse: a 429 is handled like any other error
\* status (linear backoff).
MkOnResponse_NoRateLimit(m, resp) ==
  LET got == [m EXCEPT !.outcomes = Append(@, [kind |-> "response", resp |-> resp]),
                       !.pending = @ \ {m.attempt}]
  IN IF ~ResponseOk(resp)
     THEN MkCatch(got, MkErrorMessage(resp))
     ELSE [got EXCEPT !.phase = "body", !.resp = resp]

\* Faulty variant of MkOnResponse: a rate-limited last attempt sleeps and
\* retries once more.
MkOnResponse_RetryLast(m, resp) ==
  LET got == [m EXCEPT !.outcomes = Append(@, [kind |-> "response", resp |-> resp]),
                       !.pending = @ \ {m.attempt}]
  IN IF ~ResponseOk(resp)
     THEN (IF resp.status = 429 /\ m.attempt <= DefaultRetries
           THEN [got EXCEPT !.phase = "sleep", !.sleeps = Append(@, RetryAfterMs(resp))]
           ELSE MkCatch(got, MkErrorMessage(resp)))
     ELSE [got EXCEPT !.phase = "body", !.resp = resp]

\* The raced fetch resolves with a response.
MkOnResponse(m, resp) ==
  LET got == [m EXCEPT !.outcomes = Append(@, [kind |-> "response", resp |-> resp]),
                       !.pending = @ \ {m.attempt}]
  IN IF ~ResponseOk(resp)
     THEN (IF resp.status = 429 /\ m.attempt < DefaultRetries
           THEN [got EXCEPT !.phase = "sleep", !.sleeps = Append(@, RetryAfterMs(resp))]
           ELSE MkCatch(got, MkErrorMessage(resp)))
     ELSE [got EXCEPT !.phase = "body", !.resp = resp]

\* const data = await response.json(); return data
MkOnBody(m) ==
  IF m.resp.body.fmt = "json"
  THEN [m EXCEPT !.phase = "returned", !.result = m.resp.body.obj]
  ELSE MkCatch(m, "invalid json response body at " \o MkUrl \o " reason: Unexpected token")

\* What GitLab may answer to a request of makeGitLabRequest.
RateLimited(retryAfter) ==
  Response(429, "Too Many Requests", retryAfter,
           JsonBody(<< <<"message", Str("Rate limit exceeded")>> >>))

MkResponses ==
  { RateLimited(ToString(n)) : n \in 0..MaxRetryAfter }
  \cup { RateLimited(""), RateLimited("soon"),
         Response(200, "OK", "", JsonBody(RepositoryBody)),
         Response(200, "OK", "", TextBody("<html>")),
         Response(500, "Internal Server Error", "", TextBody("")) }

\* The methods of options.method.
MkMethods == {"GET", "POST", "PUT", "DELETE"}

MkCall(method) ==
  /\ Alive
  /\ mk.phase = "idle"
  /\ mk' = MkFetch([mk EXCEPT !.method = method], 1)
  /\ UNCHANGED <<calls, proc, remote>>

\* GitLab has applied the request of an attempt (the log holds it once).
MkApplied(r, m, attempt) ==
  LET entry == [by |-> attempt, method |-> m.method]
  IN IF \E i \in 1..Len(r.log) : r.log[i] = entry THEN r
     ELSE [r EXCEPT !.log = Append(@, entry)]

\* The raced fetch resolves before the timer fires; a 2xx answer means GitLab
\* has applied the request.
MkFetchResolves(resp) ==
  /\ Alive
  /\ mk.phase = "fetch"
  /\ mk' = MkOnResponse(mk, resp)
  /\ remote' = IF ResponseOk(resp) THEN MkApplied(remote, mk, mk.attempt) ELSE remote
  /\ UNCHANGED <<calls, proc>>

\* The fetch rejects before the timer fires.
MkFetchRejects ==
  /\ Alive
  /\ mk.phase = "fetch"
  /\ mk' = MkCatch([mk EXCEPT !.outcomes = Append(@, [kind |-> "netfail", resp |-> NoResponse]),
                              !.pending = @ \ {mk.attempt}],
                   "request to " \o MkUrl \o " failed, reason: connect ECONNREFUSED")
  /\ UNCHANGED <<calls, proc, remote>>

\* Faulty variant of MkOnTimeout: the timer aborts the fetch it was raced
\* against.
MkOnTimeout_Abort(m) ==
  MkCatch([m EXCEPT !.outcomes = Append(@, [kind |-> "timeout", resp |-> NoResponse]),
                    !.pending = @ \ {m.attempt}],
          WithTimeoutMessage(RequestTimeoutMs))

\* Promise.race settles with the timer's rejection; the fetch promise is left
\* as it is.
MkOnTimeout(m) ==
  MkCatch([m EXCEPT !.outcomes = Append(@, [kind |-> "timeout", resp |-> NoResponse])],
          WithTimeoutMessage(RequestTimeoutMs))

\* The timer of withTimeout fires before the fetch settles.
MkTimeout ==
  /\ Alive
  /\ mk.phase = "fetch"
  /\ mk' = MkOnTimeout(mk)
  /\ UNCHANGED <<calls, proc, remote>>

\* The attempts whose timer fired while their fetch was pending.
MkAbandoned(m) == { a \in m.pending : a < m.attempt \/ m.phase # "fetch" }

\* GitLab applies the request of an attempt the call no longer waits for.
MkRemoteApplies(a) ==
  /\ Alive
  /\ a \in MkAbandoned(mk)
  /\ remote' = MkApplied(remote, mk, a)
  /\ remote' # remote
  /\ UNCHANGED <<calls, mk, proc>>

\* The fetch of an attempt the call no longer waits for settles: the race has
\* been decided, and nothing reads the response or the error.
MkLateSettles(a) ==
  /\ Alive
  /\ a \in MkAbandoned(mk)
  /\ mk' = [mk EXCEPT !.pending = @ \ {a}, !.late = @ \cup {a}]
  /\ UNCHANGED <<calls, proc, remote>>

MkBodyDecoded ==
  /\ Alive
  /\ mk.phase = "body"
  /\ mk' = MkOnBody(mk)
  /\ UNCHANGED <<calls, proc, remote>>

\* The sleep's timer fires and the for loop starts its next attempt.
MkSleepDone ==
  /\ Alive
  /\ mk.phase = "sleep"
  /\ mk' = MkFetch(mk, mk.attempt + 1)
  /\ UNCHANGED <<calls, proc, remote>>

MkNext ==
  \/ \E method \in MkMethods : MkCall(method)
  \/ \E resp \in MkResponses : MkFetchResolves(resp)
  \/ MkFetchRejects
  \/ MkTimeout
  \/ MkBodyDecoded
  \/ MkSleepDone
  \/ \E a \in 1..DefaultRetries : MkRemoteApplies(a)
  \/ \E a \in 1..DefaultRetries : MkLateSettles(a)

\* The GitLab project the requests reach. labels: the labels of issue 42;
\* log: the requests GitLab has served, in the order it served them.
RemoteInit == [labels |-> << "bug" >>, log |-> <<>>]

\* The server is up: the module has loaded with a credential and the transport
\* is connected.
Init ==
  /\ calls = [c \in CallIds |-> IdleCall]
  /\ mk = MkIdle
  /\ proc = StartedProcess
  /\ remote = RemoteInit

Next ==
  \/ \E c \in CallIds, name \in ModelledTools \cup UnregisteredNames :
       \E args \in ArgPayloads(name) : Receive(c, name, args)
  \/ \E c \in CallIds : Dispatch(c)
  \/ \E c \in CallIds : Validate(c)
  \/ \E c \in CallIds : FetchRejects(c)
  \/ \E c \in CallIds, resp \in HandlerResponses : FetchResolves(c, resp)
  \/ \E c \in CallIds : BodyDecoded(c)

Spec == Init /\ [][Next]_vars

\* One makeGitLabRequest call, under every sequence of responses.
InvokerSpec == Init /\ [][MkNext]_vars

\* The calls a client sends while the process starts, runs and shuts down.
ProcessCalls ==
  { <<"delete_project", NoArgs>>,
    <<"delete_project", Args(<< <<"project_id", Str("group/app")>> >>)>>,
    <<"list_pipelines", Args(<<>>)>> }

ProcessResponses ==
  { Response(204, "No Content", "", TextBody("")),
    Response(404, "Not Found", "", JsonBody(<< <<"message", Str("404 Project Not Found")>> >>)) }

ProcessInit ==
  /\ calls = [c \in CallIds |-> IdleCall]
  /\ mk = MkIdle
  /\ \E token \in TokenValues : proc = LoadingProcess(token)
  /\ remote = RemoteInit

ProcessNext ==
  \/ LoadModule
  \/ ConnectResolves
  \/ ConnectRejects
  \/ Signal
  \/ CloseResolves
  \/ CloseRejects
  \/ \E kind \in {"uncaughtException", "unhandledRejection"} : Fatal(kind)
  \/ ListTools
  \/ \E c \in CallIds, call \in ProcessCalls : Receive(c, call[1], call[2])
  \/ \E c \in CallIds : Dispatch(c)
  \/ \E c \in CallIds : Validate(c)
  \/ \E c \in CallIds : FetchRejects(c)
  \/ \E c \in CallIds, resp \in ProcessResponses : FetchResolves(c, resp)

\* The process from module load to exit, serving requests in between.
ProcessSpec == ProcessInit /\ [][ProcessNext]_vars

----------------------------------------------------------------------------
(* One invocation of a read-then-write handler                             *)

\* Largest number of labels an invocation carries.
MaxLabels == 2

LabelNames == {"bug", "urgent", "docs"}

LabelLists == UNION { [1..n -> LabelNames] : n \in 0..MaxLabels }

StrItems(names) == Arr([i \in 1..Len(names) |-> Str(names[i])])

FileArgs(filePath, previousPath) ==
  Args(<< <<"project_id", Str("group/app")>>, <<"file_path", Str(filePath)>>,
          <<"content", Str("hello")>>, <<"commit_message", Str("update")>>,
          <<"branch", Str("main")>> >>
       \o (IF previousPath = "" THEN <<>> ELSE << <<"previous_path", Str(previousPath)>> >>))

LabelArgs(labels) ==
  Args(<< <<"project_id", Str("group/app")>>, <<"issue_iid", Num("42")>>,
          <<"labels", StrItems(labels)>> >>)

HandlerCalls ==
  { <<"create_or_update_file", FileArgs(path, prev)>> :
      path \in {"README.md", "docs/my file.md"}, prev \in {"", "OLD.md"} }
  \cup { <<"create_or_update_file", Args(<< <<"project_id", Str("group/app")>> >>)>> }
  \cup { <<name, LabelArgs(labels)>> :
           name \in {"add_labels_to_issue", "remove_labels_from_issue"},
           labels \in LabelLists }
  \cup { <<"add_labels_to_issue", Args(<< <<"project_id", Str("group/app")>>,
                                          <<"labels", Str("bug")>> >>)>> }
  \cup { <<"create_branch", Args(<< <<"project_id", Str("group/app")>>,
                                    <<"branch", Str("feature")>> >> \o ref)>> :
           ref \in { <<>>, << <<"ref", Str("")>> >>, << <<"ref", Str("release")>> >> } }
  \cup { <<"set_time_estimate", Args(<< <<"project_id", Str("group/app")>>,
                                        <<"issue_iid", Num("42")>>,
                                        <<"duration", Str("3h 30m")>> >>)>>,
         <<"delete_note", Args(<< <<"project_id", Str("group/app")>>,
                                  <<"issue_iid", Num("42")>>,
                                  <<"note_id", Num("7")>> >>)>> }

FileContentBody ==
  << <<"file_name", Str("README.md")>>, <<"file_path", Str("README.md")>>,
     <<"size", Num("5")>>, <<"encoding", Str("base64")>>, <<"content", Str("aGVsbG8=")>>,
     <<"content_sha256", Str("2cf2")>>, <<"ref", Str("main")>>, <<"blob_id", Str("b1")>>,
     <<"last_commit_id", Str("c1")>> >>

FileWriteBody ==
  << <<"file_path", Str("README.md")>>, <<"branch", Str("main")>>,
     <<"commit_id", Str("c2")>> >>

IssueBody(labels) ==
  << <<"iid", Num("42")>>, <<"title", Str("Crash")>>, <<"state", Str("opened")>>,
     <<"labels", Arr(labels)>> >>

TimeStatsBody ==
  << <<"time_estimate", Num("12600")>>, <<"total_time_spent", Num("0")>>,
     <<"human_time_estimate", Str("3h 30m")>> >>

LabelObject(id, name) ==
  Obj(<< <<"id", Num(id)>>, <<"name", Str(name)>>, <<"color", Str("#ff0000")>> >>)

\* The label lists GitLab may report for the issue.
IssueLabelLists ==
  { <<>>, << Str("bug"), Str("urgent") >>, << Str("urgent"), Str("bug") >>,
    << LabelObject("1", "bug"), LabelObject("2", "urgent") >>, << Str("docs") >> }

Message(status, statusText, message) ==
  Response(status, statusText, "", JsonBody(<< <<"message", Str(message)>> >>))

\* What GitLab may answer to the request the invocation is awaiting.
ResponsesTo(call) ==
  CASE call.awaiting = "getFileContents" ->
         { Response(200, "OK", "", JsonBody(FileContentBody)),
           Response(200, "OK", "", JsonBody(<< <<"file_name", Str("README.md")>> >>)),
           Response(200, "OK", "", JsonBody(SubSeq(FileContentBody, 1, 7))),
           Response(200, "OK", "", TextBody("<html>")),
           Message(404, "Not Found", "404 File Not Found"),
           Message(400, "Bad Request", "file_path should be a valid file path"),
           Response(400, "Bad Request", "", JsonBody(<< <<"error", Str("branch is missing")>> >>)),
           Message(422, "Unprocessable Entity", "file_path is invalid"),
           Message(401, "Unauthorized", "401 Unauthorized"),
           Message(403, "Forbidden", "403 Forbidden"),
           Response(500, "Internal Server Error", "", TextBody("")) }
    [] call.awaiting = "createOrUpdateFile" ->
         { Response(201, "Created", "", JsonBody(FileWriteBody)),
           Response(200, "OK", "", JsonBody(FileWriteBody)),
           Message(400, "Bad Request", "A file with this name already exists"),
           Message(400, "Bad Request", "A file with this name doesn't exist") }
    [] call.awaiting = "getIssue" ->
         { Response(200, "OK", "", JsonBody(IssueBody(labels))) : labels \in IssueLabelLists }
         \cup { Message(404, "Not Found", "404 Not found"),
                Response(200, "OK", "", JsonBody(<< <<"iid", Num("42")>> >>)) }
    [] call.awaiting = "updateIssue" ->
         { Response(200, "OK", "", JsonBody(IssueBody(<< Str("bug") >>))),
           Message(403, "Forbidden", "403 Forbidden") }
    [] call.awaiting = "getDefaultBranchRef" ->
         { Response(200, "OK", "", JsonBody(RepositoryBody)),
           Response(200, "OK", "", JsonBody(MalformedBody)),
           Response(200, "OK", "", TextBody("<html>")),
           Message(404, "Not Found", "404 Project Not Found"),
           Message(401, "Unauthorized", "401 Unauthorized") }
    [] call.awaiting = "createBranch" ->
         { Response(201, "Created", "", JsonBody(<< <<"name", Str("feature")>> >>)),
           Message(400, "Bad Request", "Branch already exists") }
    [] call.awaiting = "setTimeEstimate" ->
         { Response(200, "OK", "", JsonBody(TimeStatsBody)),
           Response(200, "OK", "", JsonBody(<< <<"time_estimate", Str("3h 30m")>> >>)),
           Message(404, "Not Found", "404 Not found") }
    [] call.awaiting = "deleteNote" ->
         { Response(204, "No Content", "", TextBody("")),
           Response(200, "OK", "", TextBody("")),
           Response(202, "Accepted", "", JsonBody(<< <<"message", Str("202 Accepted")>> >>)),
           Message(404, "Not Found", "404 Not found") }
    [] OTHER -> {}

HandlerNext ==
  \/ \E call \in HandlerCalls : Receive(1, call[1], call[2])
  \/ Dispatch(1)
  \/ Validate(1)
  \/ FetchRejects(1)
  \/ \E resp \in ResponsesTo(calls[1]) : FetchResolves(1, resp)
  \/ BodyDecoded(1)

\* One invocation of create_or_update_file, add_labels_to_issue,
\* remove_labels_from_issue, create_branch, set_time_estimate or delete_note,
\* under every sequence of responses.
HandlerSpec == Init /\ [][HandlerNext]_vars


----------------------------------------------------------------------------
(* Builds 1.2.0 and 1.3.0 side by side                                     *)

\* The two builds of the server in the repository.
HandlerVersions == {"1.2.0", "1.3.0"}

VersionCalls ==
  HandlerCalls
    \cup { <<name, args>> : name \in UnregisteredNames \cup {"create_branch"},
                            args \in {NoArgs, Args(<<>>)} }

\* Both builds are up, each with its own run of the call handler.
VersionInit ==
  /\ calls = [v \in HandlerVersions |-> [IdleCall EXCEPT !.version = v]]
  /\ mk = MkIdle
  /\ proc = StartedProcess
  /\ remote = RemoteInit

\* Some build's run of the call handler is at pc.
VersionAt(pc) == Alive /\ \E v \in HandlerVersions : calls[v].pc = pc

\* The same call-tool request is delivered to both builds.
VersionReceive(name, args) ==
  /\ VersionAt("idle")
  /\ calls' = [v \in HandlerVersions |->
                IF calls[v].pc = "idle"
                THEN [calls[v] EXCEPT !.pc = "received", !.name = name, !.args = args]
                ELSE calls[v]]
  /\ UNCHANGED <<mk, proc, remote>>

\* Each build runs its own arguments check and switch.
VersionDispatch ==
  /\ VersionAt("received")
  /\ calls' = [v \in HandlerVersions |->
                IF calls[v].pc # "received" THEN calls[v]
                ELSE IF v = "1.2.0" THEN DispatchStep120(calls[v])
                ELSE DispatchStep(calls[v])]
  /\ UNCHANGED <<mk, proc, remote>>

VersionValidate ==
  /\ VersionAt("validating")
  /\ calls' = [v \in HandlerVersions |->
                IF calls[v].pc = "validating" THEN ValidateStep(calls[v]) ELSE calls[v]]
  /\ UNCHANGED <<mk, proc, remote>>

VersionFetchRejects ==
  /\ VersionAt("fetch")
  /\ calls' = [v \in HandlerVersions |->
                IF calls[v].pc = "fetch" THEN OnFetchError(calls[v]) ELSE calls[v]]
  /\ UNCHANGED <<mk, proc, remote>>

\* GitLab answers the pending request of both builds alike.
VersionFetchResolves(resp) ==
  /\ VersionAt("fetch")
  /\ calls' = [v \in HandlerVersions |->
                IF calls[v].pc = "fetch" THEN OnResponse(calls[v], resp) ELSE calls[v]]
  /\ UNCHANGED <<mk, proc, remote>>

VersionBodyDecoded ==
  /\ VersionAt("body")
  /\ calls' = [v \in HandlerVersions |->
                IF calls[v].pc = "body" THEN OnBody(calls[v]) ELSE calls[v]]
  /\ UNCHANGED <<mk, proc, remote>>

VersionNext ==
  \/ \E call \in VersionCalls : VersionReceive(call[1], call[2])
  \/ VersionDispatch
  \/ VersionValidate
  \/ VersionFetchRejects
  \/ \E v \in HandlerVersions : \E resp \in ResponsesTo(calls[v]) :
       calls[v].pc = "fetch" /\ VersionFetchResolves(resp)
  \/ VersionBodyDecoded

\* One invocation handled by build 1.2.0 and by build 1.3.0, under every
\* sequence of responses.
VersionSpec == VersionInit /\ [][VersionNext]_vars


----------------------------------------------------------------------------
(* One invocation of get_file_contents                                     *)

\* Length of the file paths the client asks for.
MaxPathLen == 3

PathAlphabet == { "/", " ", "#", "%", "2", "F" }

RECURSIVE StringsUpTo(_)
StringsUpTo(n) ==
  IF n = 0 THEN { "" }
  ELSE LET shorter == StringsUpTo(n - 1)
       IN shorter \cup { s \o ch : s \in shorter, ch \in PathAlphabet }

FilePaths == StringsUpTo(MaxPathLen) \cup { "a/b c#d" }

ReadArgs(projectId, filePath, ref) ==
  Args(<< <<"project_id", Str(projectId)>>, <<"file_path", Str(filePath)>> >>
       \o (IF ref = "" THEN <<>> ELSE << <<"ref", Str(ref)>> >>))

FileReadCalls ==
  { <<"get_file_contents", ReadArgs("group/app", path, "")>> : path \in FilePaths }
  \cup { <<"get_file_contents", ReadArgs(projectId, "a/b c#d", ref)>> :
           projectId \in { "42", "group/app", "my group/sub/app" },
           ref \in { "main", "feature/x#1" } }

FileReadResponses ==
  { Response(200, "OK", "", JsonBody(FileContentBody)),
    Response(200, "OK", "", JsonBody(<< <<"file_name", Str("README.md")>> >>)),
    Message(404, "Not Found", "404 File Not Found"),
    Message(400, "Bad Request", "file_path should be a valid file path"),
    Message(422, "Unprocessable Entity", "file_path is invalid"),
    Response(400, "Bad Request", "", JsonBody(<< <<"error", Str("file_path is missing")>> >>)),
    Response(400, "Bad Request", "",
             JsonBody(<< <<"message", Obj(<< <<"file_path", Arr(<< Str("is invalid") >>)>> >>)>> >>)),
    Response(400, "Bad Request", "", TextBody("file_path is invalid")),
    Response(400, "Bad Request", "", JsonBody(<< <<"message", Str("branch is missing")>> >>)) }

FileReadNext ==
  \/ \E call \in FileReadCalls : Receive(1, call[1], call[2])
  \/ Dispatch(1)
  \/ Validate(1)
  \/ FetchRejects(1)
  \/ \E resp \in FileReadResponses : FetchResolves(1, resp)
  \/ BodyDecoded(1)

\* One invocation of get_file_contents, for every file path.
FileReadSpec == Init /\ [][FileReadNext]_vars

----------------------------------------------------------------------------
(* Operations in flight at once                                            *)

\* Number of operations (tool invocations and makeGitLabRequest calls) in
\* flight at once.
MaxInFlight == 2

InFlightIds == 1..MaxInFlight

\* The locals of call i of makeGitLabRequest (headers, attempt, response,
\* errorMessage, retryAfter): every call has its own.
MkFrame(ms, i) == ms[i]

ConcurrentCalls ==
  { <<"create_branch", Args(<< <<"project_id", Str("group/app")>>,
                               <<"branch", Str(branch)>> >>)>> :
      branch \in {"feature", "hotfix"} }
  \cup { <<"add_labels_to_issue", LabelArgs(<< "docs" >>)>> }

ConcurrentResponsesTo(call) ==
  IF call.awaiting \in {"getIssue", "updateIssue"}
  THEN { Response(200, "OK", "", JsonBody(IssueBody(<< Str("bug") >>))),
         Message(404, "Not Found", "404 Not found") }
  ELSE { Response(201, "Created", "", JsonBody(RepositoryBody)),
         Message(404, "Not Found", "404 Project Not Found") }

ConcurrentMkResponses ==
  { Response(200, "OK", "", JsonBody(RepositoryBody)),
    Response(500, "Internal Server Error", "", TextBody("")) }

\* The number of operations started so far.
InFlight ==
  Cardinality({ c \in DOMAIN calls : calls[c].pc # "idle" })
  + Cardinality({ i \in DOMAIN mk : mk[i].phase # "idle" })

\* A step of call i of makeGitLabRequest from phase from.
InvokerStep(i, from, next) ==
  /\ Alive
  /\ mk[i].phase = from
  /\ mk' = [mk EXCEPT ![i] = next]
  /\ UNCHANGED <<calls, proc, remote>>

ConcurrentInit ==
  /\ calls = [c \in InFlightIds |-> IdleCall]
  /\ mk = [i \in InFlightIds |-> MkIdle]
  /\ proc = StartedProcess
  /\ remote = RemoteInit

ConcurrentNext ==
  \/ \E c \in InFlightIds, call \in ConcurrentCalls :
       InFlight < MaxInFlight /\ Receive(c, call[1], call[2])
  \/ \E c \in InFlightIds : Dispatch(c)
  \/ \E c \in InFlightIds : Validate(c)
  \/ \E c \in InFlightIds : FetchRejects(c)
  \/ \E c \in InFlightIds : \E resp \in ConcurrentResponsesTo(calls[c]) : FetchResolves(c, resp)
  \/ \E c \in InFlightIds : BodyDecoded(c)
  \/ \E i \in InFlightIds :
       /\ InFlight < MaxInFlight
       /\ \A j \in InFlightIds : j < i => mk[j].phase # "idle"
       /\ InvokerStep(i, "idle", MkFetch([MkFrame(mk, i) EXCEPT !.method = "POST"], 1))
  \/ \E i \in InFlightIds, resp \in ConcurrentMkResponses :
       InvokerStep(i, "fetch", MkOnResponse(MkFrame(mk, i), resp))
  \/ \E i \in InFlightIds : InvokerStep(i, "body", MkOnBody(MkFrame(mk, i)))
  \/ \E i \in InFlightIds :
       InvokerStep(i, "sleep", MkFetch(MkFrame(mk, i), MkFrame(mk, i).attempt + 1))

\* Tool invocations and makeGitLabRequest calls interleaved at every await.
ConcurrentSpec == ConcurrentInit /\ [][ConcurrentNext]_vars

----------------------------------------------------------------------------
(* Label invocations in flight at once, against one issue                  *)

\* The names in a comma-separated list, without repetitions.
RECURSIVE CommaList(_, _, _)
CommaList(text, word, names) ==
  LET with == IF word = "" \/ \E i \in 1..Len(names) : names[i] = word
              THEN names ELSE Append(names, word)
  IN IF text = "" THEN with
     ELSE IF SubSeq(text, 1, 1) = ","
     THEN CommaList(SubSeq(text, 2, Len(text)), "", with)
     ELSE CommaList(SubSeq(text, 2, Len(text)), word \o SubSeq(text, 1, 1), names)

\* GitLab serves the request of invocation c: a PUT with labels replaces the
\* labels of the issue, a PUT with add_labels adds to them, a GET changes nothing.
RemoteServe(r, c, request) ==
  LET put == Lookup(request.body, "labels")
      add == Lookup(request.body, "add_labels")
      labels == IF request.method # "PUT" THEN r.labels
                ELSE IF put.t = "string" THEN CommaList(put.s, "", <<>>)
                ELSE IF add.t = "string" THEN CommaList(add.s, "", r.labels)
                ELSE r.labels
  IN [labels |-> labels,
      log |-> Append(r.log, [by |-> c, method |-> request.method])]

\* The issue as GitLab returns it.
RemoteResponse(r) ==
  Response(200, "OK", "", JsonBody(IssueBody([i \in 1..Len(r.labels) |-> Str(r.labels[i])])))

\* GitLab serves the request invocation c awaits, and the answer arrives.
RemoteAnswers(c) ==
  /\ Alive
  /\ calls[c].pc = "fetch"
  /\ LET served == RemoteServe(remote, c, LastRequest(calls[c]))
     IN /\ remote' = served
        /\ calls' = [calls EXCEPT ![c] = OnResponse(CallFrame(calls, c),
                                                    RemoteResponse(served))]
  /\ UNCHANGED <<mk, proc>>

LabelRaceCalls ==
  { <<"add_labels_to_issue", LabelArgs(labels)>> :
      labels \in { << "docs" >>, << "urgent" >> } }

LabelRaceInit ==
  /\ calls = [c \in InFlightIds |-> IdleCall]
  /\ mk = MkIdle
  /\ proc = StartedProcess
  /\ remote = RemoteInit

LabelRaceNext ==
  \/ \E c \in InFlightIds, call \in LabelRaceCalls : Receive(c, call[1], call[2])
  \/ \E c \in InFlightIds : Dispatch(c)
  \/ \E c \in InFlightIds : Validate(c)
  \/ \E c \in InFlightIds : RemoteAnswers(c)
  \/ \E c \in InFlightIds : FetchRejects(c)
  \/ \E c \in InFlightIds : BodyDecoded(c)

\* add_labels_to_issue invocations on one issue, interleaved at every await.
LabelRaceSpec == LabelRaceInit /\ [][LabelRaceNext]_vars

----------------------------------------------------------------------------
(* Properties of the dispatcher                                            *)

Started(call) == call.pc \notin {"idle", "received"}
Terminal(call) == call.pc \in {"error", "responded"}

\* A field of the schema the payload violates: required and absent, or
\* present with a value that is not a string.
Violates(f, obj) ==
  LET v == Lookup(obj, f.name)
  IN IF v.t = "undefined" THEN ~f.optional ELSE v.t # "string"

ViolatedFields(call) ==
  LET schema == InputSchema(call.name)
  IN { i \in 1..Len(schema) : Violates(schema[i], call.args.obj) }

\* C1: an invocation that carries an arguments payload and names no registered
\* tool fails with McpError MethodNotFound, and no HTTP request is issued for it.
C1_UnknownToolIsMethodNotFound ==
  \A c \in CallIds :
    LET call == calls[c]
    IN (call.pc # "idle" /\ call.args.present /\ call.name \notin RegisteredTools)
       => /\ call.reqs = <<>>
          /\ Started(call) => /\ call.pc = "error"
                              /\ call.outcome.kind = "error"
                              /\ call.outcome.code = "MethodNotFound"

C1_Witness ==
  \E c \in CallIds :
    /\ calls[c].pc = "error"
    /\ calls[c].args.present
    /\ calls[c].name \in UnregisteredNames

\* C2: an invocation without an arguments payload fails with McpError
\* InvalidParams "Arguments are required", whatever its name, before any name
\* lookup, validation or HTTP request; an empty object is a payload.
C2_MissingArgumentsIsInvalidParams ==
  \A c \in CallIds :
    LET call == calls[c]
    IN /\ (call.pc # "idle" /\ ~call.args.present)
          => /\ call.reqs = <<>>
             /\ Started(call) => /\ call.pc = "error"
                                 /\ call.outcome.code = "InvalidParams"
                                 /\ call.outcome.message = "Arguments are required"
                                 /\ call.thrown.class = "McpError"
       /\ (call.pc # "idle" /\ call.args.present)
          => call.outcome.message # "Arguments are required"

C2_Witness ==
  \E c \in CallIds :
    /\ calls[c].pc = "error"
    /\ ~calls[c].args.present
    /\ calls[c].name \in UnregisteredNames

\* C3: an invocation of a registered tool whose arguments violate the tool's
\* input schema fails with McpError InvalidParams, the message lists every
\* violated field as "path: reason", joined by ", ", and no HTTP request is issued.
C3_ValidationErrorListsEveryField ==
  \A c \in CallIds :
    LET call == calls[c]
        schema == InputSchema(call.name)
    IN (/\ call.name \in RegisteredTools
        /\ call.args.present
        /\ ViolatedFields(call) # {}
        /\ call.pc \notin {"idle", "received", "validating"})
       => /\ call.pc = "error"
          /\ call.reqs = <<>>
          /\ call.outcome.code = "InvalidParams"
          /\ SubSeq(call.outcome.message, 1, 20) = "Invalid parameters: "
          /\ \A i \in ViolatedFields(call) :
               Includes(call.outcome.message,
                        schema[i].name \o ": "
                        \o (IF HasKey(call.args.obj, schema[i].name)
                            THEN "Expected " ELSE "Required"))
          /\ \A i, j \in ViolatedFields(call) :
               (i < j /\ \A k \in ViolatedFields(call) : ~(i < k /\ k < j))
               => Includes(call.outcome.message, ", " \o schema[j].name \o ": ")
          /\ (call.name = "create_branch" /\ call.args.obj = <<>>)
             => call.outcome.message
                  = "Invalid parameters: project_id: Required, branch: Required"

C3_Witness ==
  \E c \in CallIds :
    /\ calls[c].pc = "error"
    /\ calls[c].name = "create_branch"
    /\ calls[c].args.present
    /\ Cardinality(ViolatedFields(calls[c])) = 3

\* C4: an error that surfaces from a tool handler and is neither a ZodError nor
\* an McpError is rethrown as McpError InternalError whose message contains the
\* original message; an McpError is rethrown unchanged.
C4_OtherErrorsAreInternalError ==
  \A c \in CallIds :
    LET call == calls[c]
    IN call.pc = "error"
       => /\ call.thrown.class = "Error"
             => /\ call.outcome.code = "InternalError"
                /\ Includes(call.outcome.message, call.thrown.message)
          /\ call.thrown.class = "McpError"
             => /\ call.outcome.code = call.thrown.code
                /\ call.outcome.message = call.thrown.message
          /\ (call.resps # <<>> /\ ~ResponseOk(call.resps[Len(call.resps)]))
             => /\ call.outcome.code = "InternalError"
                /\ Includes(call.outcome.message,
                            "GitLab API error ("
                            \o ToString(call.resps[Len(call.resps)].status) \o "): "
                            \o call.resps[Len(call.resps)].statusText)
          /\ (call.reqs # <<>> /\ Len(call.resps) < Len(call.reqs))
             => /\ call.outcome.code = "InternalError"
                /\ Includes(call.outcome.message, "ECONNREFUSED")

C4_Witness ==
  \E c \in CallIds :
    /\ calls[c].pc = "error"
    /\ calls[c].thrown.class = "Error"
    /\ calls[c].resps # <<>>
    /\ calls[c].resps[Len(calls[c].resps)].status = 404

\* The indented serialisation of the values the modelled handlers return.
PrettyTextOf(value) ==
  CASE value = << <<"id", Num("1")>>, <<"name", Str("demo")>>,
                  <<"default_branch", Str("main")>> >> ->
         "{\n  \"id\": 1,\n  \"name\": \"demo\",\n  \"default_branch\": \"main\"\n}"
    [] value = << <<"name", Str("demo")>> >> -> "{\n  \"name\": \"demo\"\n}"
    [] Len(value) = 1 /\ value[1][1] = "message" ->
         "{\n  \"message\": \"" \o value[1][2].s \o "\"\n}"
    [] OTHER -> "?"

\* C5: when a registered tool's handler completes without throwing, the result's
\* content is exactly one item of type "text" whose text is the 2-space indented
\* JSON serialisation of the handler's return value.
C5_ResultIsOnePrettyTextItem ==
  \A c \in CallIds :
    LET call == calls[c]
    IN call.pc = "responded"
       => /\ call.name \in RegisteredTools
          /\ call.outcome.kind = "result"
          /\ Len(call.outcome.content) = 1
          /\ call.outcome.content[1].type = "text"
          /\ call.outcome.content[1].text = PrettyTextOf(call.returned)

C5_Witness ==
  \E c \in CallIds :
    /\ calls[c].pc = "responded"
    /\ calls[c].name = "create_repository"
    /\ Lookup(calls[c].returned, "name") = Str("demo")

\* The order of the per-call states.
Rank(state) ==
  CASE state = "Idle" -> 0
    [] state = "Received" -> 1
    [] state = "Validating" -> 2
    [] state = "Executing" -> 3
    [] state = "ValidatingOutput" -> 4
    [] state \in {"Error", "Responded"} -> 5

C6_StateInvariant ==
  \A c \in CallIds :
    LET call == calls[c]
    IN /\ (State(call) \in {"Executing", "ValidatingOutput", "Responded"} \/ call.reqs # <<>>)
          => /\ call.args.present
             /\ call.name \in RegisteredTools
             /\ ViolatedFields(call) = {}
       /\ State(call) = "Error"
          => /\ call.outcome.kind = "error"
             /\ call.thrown.class # "none"
             /\ call.outcome.code \in {"MethodNotFound", "InvalidParams", "InternalError"}
       /\ State(call) = "Responded" => call.outcome.kind = "result"
       /\ ~Terminal(call) => call.outcome.kind = "none"

C6_Step ==
  \A c \in CallIds :
    LET from == State(calls[c])
        to == State(calls'[c])
    IN /\ to = "Received" => from \in {"Idle", "Received"}
       /\ from \in {"Error", "Responded"} => calls'[c] = calls[c]
       /\ Rank(from) <= Rank(to)
       /\ to = "Validating" => from \in {"Received", "Validating"}
       /\ to = "Executing" => from \in {"Validating", "Executing"}
       /\ to = "ValidatingOutput" => from \in {"Executing", "ValidatingOutput"}

\* C6: every invocation moves forward through Received, Validating, Executing,
\* ValidatingOutput to one terminal state, Error or Responded: it never returns
\* to Received, never leaves a terminal state, is Executing only after its input
\* validated, and every Error is an McpError MethodNotFound, InvalidParams or
\* InternalError.
C6_PerCallStateMachine == [](C6_StateInvariant) /\ [][C6_Step]_vars

C6_Witness ==
  \E c \in CallIds :
    /\ calls[c].pc = "responded"
    /\ calls[c].name = "create_branch"
    /\ Len(calls[c].reqs) = 2

----------------------------------------------------------------------------
(* Properties of makeGitLabRequest                                         *)

MkTerminal == mk.phase \in {"returned", "thrown"}

IsRateLimited(o) == o.kind = "response" /\ o.resp.status = 429

IsDecodableSuccess(o) ==
  o.kind = "response" /\ ResponseOk(o.resp) /\ o.resp.body.fmt = "json"

\* C7: after k consecutive 429s (k in 0..2) with retry-after r1..rk and then a
\* 2xx response, the call has slept exactly k times, r1..rk seconds in that
\* order, has issued k+1 requests and returns the decoded payload; after three
\* consecutive 429s it fails with the rate-limit error, having slept twice.
C7_RateLimitRetrySequence ==
  LET out == mk.outcomes
  IN /\ \A k \in 0..2 :
          (/\ MkTerminal
           /\ Len(out) = k + 1
           /\ \A i \in 1..k : /\ IsRateLimited(out[i])
                              /\ \E n \in 0..MaxRetryAfter :
                                   out[i].resp.retryAfter = ToString(n)
           /\ IsDecodableSuccess(out[k + 1]))
          => /\ mk.phase = "returned"
             /\ mk.result = out[k + 1].resp.body.obj
             /\ Len(mk.reqs) = k + 1
             /\ Len(mk.sleeps) = k
             /\ \A i \in 1..k : \E n \in 0..MaxRetryAfter :
                  /\ out[i].resp.retryAfter = ToString(n)
                  /\ mk.sleeps[i] = n * 1000
     /\ (Len(out) >= 3 /\ \A i \in 1..3 : IsRateLimited(out[i]))
        => /\ mk.phase = "thrown"
           /\ Len(out) = 3
           /\ Len(mk.reqs) = 3
           /\ Len(mk.sleeps) = 2
           /\ SubSeq(mk.error, 1, 41) = "GitLab API error (429): Too Many Requests"

C7_Witness ==
  /\ mk.phase = "returned"
  /\ Len(mk.outcomes) = 3
  /\ mk.outcomes[1].resp.retryAfter = "2"
  /\ mk.outcomes[2].resp.retryAfter = "1"
  /\ mk.sleeps = <<2000, 1000>>

\* C8: whatever the responses, failures and timeouts, one call issues at most 3
\* requests, sleeps at most twice, and never sleeps after its final attempt.
C8_AtMostThreeAttempts ==
  /\ Len(mk.reqs) <= 3
  /\ Len(mk.sleeps) <= 2
  /\ mk.phase = "sleep" => Len(mk.reqs) < 3
  /\ mk.phase # "idle" => Len(mk.sleeps) < Len(mk.reqs) + (IF mk.phase = "sleep" THEN 1 ELSE 0)

C8_Witness ==
  /\ mk.phase = "thrown"
  /\ Len(mk.reqs) = 3
  /\ Len(mk.sleeps) = 2
  /\ \E i \in 1..3 : mk.outcomes[i].kind = "timeout"
  /\ \E i \in 1..3 : mk.outcomes[i].kind = "netfail"

----------------------------------------------------------------------------
(* Resilience of the tool handlers' requests                               *)

\* The number of times the handler issued the request it issued last.
TimesIssued(call) ==
  Cardinality({ i \in 1..Len(call.reqs) : call.reqs[i] = LastRequest(call) })

\* C9: a 429 response to a request of an invocation is recovered locally (the
\* request is issued again after the retry-after period); the rate-limit error
\* ends the invocation only when the 3 attempts are exhausted.
C9_RateLimitRecoveredLocally ==
  \A c \in CallIds :
    LET call == calls[c]
    IN (/\ call.pc = "error"
        /\ call.resps # <<>>
        /\ call.resps[Len(call.resps)].status = 429)
       => TimesIssued(call) = DefaultRetries

\* C10: every HTTP request a tool handler issues is raced against the 30-second
\* timer, so that no invocation waits without bound on a request.
C10_EveryRequestTimeBounded ==
  \A c \in CallIds :
    \A i \in 1..Len(calls[c].reqs) : calls[c].reqs[i].timeoutMs = RequestTimeoutMs

----------------------------------------------------------------------------
(* Failure handling of makeGitLabRequest                                   *)

TimedOut(o) == o.kind = "timeout"

ErrorStatus(o) == o.kind = "response" /\ ~ResponseOk(o.resp)

\* The attempt failed and the failure was not a 429 response.
FailedOtherwise(i) ==
  /\ i <= Len(mk.outcomes)
  /\ ~IsRateLimited(mk.outcomes[i])
  /\ mk.errors[i] # ""

\* The message an attempt with outcome o hands to the catch block.
IsErrorOf(message, o) ==
  CASE o.kind = "timeout" -> message = "Operation timed out after 30000ms"
    [] o.kind = "netfail" -> Includes(message, "ECONNREFUSED")
    [] ErrorStatus(o) ->
         SubSeq(message, 1, 23) = "GitLab API error (" \o ToString(o.resp.status) \o "):"
    [] OTHER -> Includes(message, "invalid json response body")

\* C11: an attempt whose fetch has not answered when the 30000 ms timer fires
\* fails with 'Operation timed out after 30000ms'; that error is not the
\* 'GitLab API error (status)' error of a non-2xx response; a call whose three
\* attempts all time out fails with the timeout error.
C11_TimeoutErrorIsDistinct ==
  LET out == mk.outcomes
  IN /\ \A i \in 1..Len(mk.reqs) : mk.reqs[i].timeoutMs = 30000
     /\ \A i \in 1..Len(out) :
          /\ TimedOut(out[i]) => mk.errors[i] = "Operation timed out after 30000ms"
          /\ (ErrorStatus(out[i]) /\ mk.errors[i] # "")
             => /\ SubSeq(mk.errors[i], 1, 18) = "GitLab API error ("
                /\ ~Includes(mk.errors[i], "timed out")
          /\ ~TimedOut(out[i]) => mk.errors[i] # "Operation timed out after 30000ms"
     /\ (Len(out) = 3 /\ \A i \in 1..3 : TimedOut(out[i]))
        => /\ mk.phase = "thrown"
           /\ mk.error = "Operation timed out after 30000ms"

C11_Witness ==
  /\ mk.phase = "thrown"
  /\ Len(mk.outcomes) = 3
  /\ \A i \in 1..3 : TimedOut(mk.outcomes[i])

\* C12: a POST, PUT or DELETE request is issued again only after a 429
\* response: every attempt that was followed by another one was rate limited.
C12_MutatingRetriedOnlyAfterRateLimit ==
  mk.method \in {"POST", "PUT", "DELETE"}
  => \A i \in 1..(Len(mk.reqs) - 1) : IsRateLimited(mk.outcomes[i])

\* C13: when attempt i < 3 fails otherwise than by a 429, the call sleeps
\* i x 1000 ms and then issues attempt i + 1; when the third attempt fails, the
\* call throws the error of that attempt.
C13_LinearBackoffThenLastError ==
  /\ \A i \in 1..2 :
       FailedOtherwise(i)
       => /\ Len(mk.sleeps) >= i
          /\ mk.sleeps[i] = i * 1000
          /\ \/ mk.phase = "sleep" /\ Len(mk.reqs) = i
             \/ Len(mk.reqs) >= i + 1
  /\ mk.phase = "thrown"
     => /\ Len(mk.outcomes) = 3
        /\ mk.error = mk.errors[3]
        /\ IsErrorOf(mk.error, mk.outcomes[3])
  /\ (Len(mk.outcomes) = 3 /\ mk.errors[3] # "") => mk.phase = "thrown"

C13_Witness ==
  /\ mk.phase = "thrown"
  /\ ErrorStatus(mk.outcomes[1]) /\ ~IsRateLimited(mk.outcomes[1])
  /\ TimedOut(mk.outcomes[2])
  /\ mk.outcomes[3].kind = "netfail"
  /\ mk.sleeps = <<1000, 2000>>

\* C14: after a 429 on an attempt that is not the last, the one sleep before
\* the next attempt lasts the retry-after header's number of seconds, 60 seconds
\* when the header is absent; no backoff sleep is added to it.
C14_RateLimitSleepIsRetryAfter ==
  LET out == mk.outcomes
  IN /\ \A i \in 1..Len(out) :
          (IsRateLimited(out[i]) /\ i < 3)
          => /\ Len(mk.sleeps) >= i
             /\ out[i].resp.retryAfter = "" => mk.sleeps[i] = 60000
             /\ \A n \in 0..MaxRetryAfter :
                  out[i].resp.retryAfter = ToString(n) => mk.sleeps[i] = n * 1000
     /\ mk.phase = "sleep" => Len(mk.sleeps) = Len(mk.reqs)
     /\ mk.phase \in {"fetch", "body", "returned", "thrown"}
        => Len(mk.sleeps) = Len(mk.reqs) - 1

C14_Witness ==
  /\ mk.phase = "returned"
  /\ Len(mk.reqs) = 3
  /\ IsRateLimited(mk.outcomes[1]) /\ mk.outcomes[1].resp.retryAfter = ""
  /\ IsRateLimited(mk.outcomes[2]) /\ mk.outcomes[2].resp.retryAfter = "2"
  /\ mk.sleeps = <<60000, 2000>>

\* The header is present and holds no leading decimal digits.
NonNumeric(text) == text # "" /\ DigitValue(SubSeq(text, 1, 1)) = NaN

\* C15: a 429 whose retry-after header is present but not numeric is handled
\* as if the header were absent: the call sleeps 60 seconds, then retries.
C15_NonNumericRetryAfterIsDefault ==
  \A i \in 1..Len(mk.sleeps) :
    (IsRateLimited(mk.outcomes[i]) /\ NonNumeric(mk.outcomes[i].resp.retryAfter))
    => mk.sleeps[i] = 60000

----------------------------------------------------------------------------
(* Properties of the process lifecycle                                     *)

NothingServed ==
  /\ ~proc.listed
  /\ \A c \in DOMAIN calls : calls[c].pc = "idle" /\ calls[c].reqs = <<>>
  /\ mk.reqs = <<>>

\* C19: with the credential unset or empty, the process logs the error and
\* exits with status 1 before the transport is connected: no list-tools or
\* call-tool request is served and no HTTP request is issued.
C19_NoCredentialExitsBeforeServing ==
  (proc.token.t = "undefined" \/ proc.token.s = "")
  => /\ proc.phase \in {"loading", "exited"}
     /\ ~proc.connected
     /\ ~proc.handlers
     /\ NothingServed
     /\ proc.phase = "exited"
        => /\ proc.exitCode = 1
           /\ Len(proc.stderr) >= 1
           /\ proc.stderr[1] = "[DXT-GitLab] ERROR: GITLAB_PERSONAL_ACCESS_TOKEN environment variable is not set"

C19_Witness ==
  /\ proc.phase = "exited"
  /\ proc.token = Str("")
  /\ proc.exitCode = 1

\* C20: once started, the process exits with status 0 only on a signal and only
\* after server.close() has completed; a signal starts the close without
\* exiting; an uncaught exception or unhandled rejection exits with status 1.
C20_SignalClosesThenExitsZero ==
  /\ proc.exitCode = 0
     => /\ proc.signals > 0
        /\ proc.closed
        /\ ~proc.connected
  /\ (proc.signals > 0 /\ Alive) => (proc.closing > 0 /\ ~proc.closed)
  /\ (proc.phase = "exited" /\ proc.signals > 0 /\ proc.closed) => proc.exitCode = 0
  /\ (proc.phase = "exited" /\ proc.cause \in {"uncaughtException", "unhandledRejection"})
     => /\ proc.exitCode = 1
        /\ ~proc.closed

C20_Witness ==
  /\ proc.phase = "exited"
  /\ proc.exitCode = 0
  /\ proc.closed
  /\ \E c \in DOMAIN calls : calls[c].pc = "fetch"

----------------------------------------------------------------------------
(* Properties of the read-then-write handlers                              *)

\* The probe of the invocation has been answered (its fetch did not reject)
\* and the answer has been handled.
ProbeHandled(call) ==
  /\ call.name = "create_or_update_file"
  /\ Len(call.resps) >= 1
  /\ ~Includes(call.caught.message, "ECONNREFUSED")
  /\ ~(call.pc = "body" /\ call.awaiting = "getFileContents")

WriteRequests(call) ==
  { i \in 1..Len(call.reqs) : call.reqs[i].method \in {"POST", "PUT"} }

\* C16: the write that follows the existence probe is a POST when the probe's
\* error mentions 404 and a PUT when the probe read the file; a probe error
\* that does not mention 404 and mentions 'file_path' or 'Bad Request' ends the
\* invocation with an 'Invalid file path format' error and no write request.
C16_WriteFollowsProbe ==
  LET call == calls[1]
      probe == call.resps[1]
      message == IF call.caught.class = "ZodError" THEN "" ELSE call.caught.message
  IN ProbeHandled(call)
     => /\ probe.status = 404
           => /\ Len(call.reqs) >= 2
              /\ call.reqs[2].method = "POST"
        /\ (call.caught.class = "Error" /\ Includes(message, "404"))
           => /\ Len(call.reqs) >= 2
              /\ call.reqs[2].method = "POST"
        /\ probe = Response(200, "OK", "", JsonBody(FileContentBody))
           => /\ call.caught.class = "none"
              /\ Len(call.reqs) >= 2
              /\ call.reqs[2].method = "PUT"
        /\ (\/ probe.status = 400
            \/ call.caught.class = "Error" /\ ~Includes(message, "404")
               /\ (Includes(message, "file_path") \/ Includes(message, "Bad Request")))
           => /\ call.pc = "error"
              /\ WriteRequests(call) = {}
              /\ Len(call.reqs) = 1
              /\ SubSeq(call.thrown.message, 1, 28) = "Invalid file path format for"
        /\ Cardinality(WriteRequests(call)) <= 1
        /\ \A i \in WriteRequests(call) :
             /\ i = 2
             /\ call.reqs[i].url = call.reqs[1].url \/ call.reqs[1].url = call.reqs[i].url \o "?ref=main"
             /\ call.reqs[i].method = "PUT" => ResponseOk(probe)

C16_Witness ==
  /\ calls[1].name = "create_or_update_file"
  /\ calls[1].pc = "error"
  /\ Len(calls[1].reqs) = 1
  /\ Len(calls[1].resps) = 1
  /\ calls[1].resps[1].status = 422
  /\ Includes(calls[1].outcome.message, "Invalid file path format for 'docs/my file.md'")

RECURSIVE SplitComma(_, _)
SplitComma(text, word) ==
  IF Len(text) = 0 THEN (IF word = "" THEN <<>> ELSE << word >>)
  ELSE IF SubSeq(text, 1, 1) = ","
  THEN << word >> \o SplitComma(SubSeq(text, 2, Len(text)), "")
  ELSE SplitComma(SubSeq(text, 2, Len(text)), word \o SubSeq(text, 1, 1))

\* The set of label names of a list of labels (names or label objects).
NameSet(items) ==
  { IF items[i].t = "string" THEN items[i].s ELSE Lookup(items[i].obj, "name").s :
      i \in 1..Len(items) }

IsLabelCall(call) == call.name \in {"add_labels_to_issue", "remove_labels_from_issue"}

\* C17: after reading current labels C, an invocation carrying labels L issues
\* exactly one update request, whose labels field is the comma-joined list,
\* without duplicates, of C union L (add) or C minus L (remove), whatever the
\* order and repetition in L.
C17_LabelsAreSetUnionOrDifference ==
  LET call == calls[1]
  IN (IsLabelCall(call) /\ Len(call.reqs) >= 2)
     => LET current == NameSet(Lookup(call.resps[1].body.obj, "labels").items)
            given == NameSet(Lookup(call.args.obj, "labels").items)
            write == call.reqs[2]
            text == Lookup(write.body, "labels").s
            written == SplitComma(text, "")
            expected == IF call.name = "add_labels_to_issue"
                        THEN current \cup given ELSE current \ given
        IN /\ Len(call.reqs) = 2
           /\ write.method = "PUT"
           /\ write.url = "https://gitlab.com/api/v4/projects/group%2Fapp/issues/42"
           /\ Len(write.body) = 1
           /\ { written[i] : i \in 1..Len(written) } = expected
           /\ Len(written) = Cardinality(expected)
           /\ (/\ call.resps[1].body.obj = IssueBody(<< Str("bug"), Str("urgent") >>)
               /\ call.name = "add_labels_to_issue"
               /\ Lookup(call.args.obj, "labels") = StrItems(<< "urgent", "docs" >>))
              => text = "bug,urgent,docs"
           /\ (/\ call.resps[1].body.obj = IssueBody(<< Str("bug"), Str("urgent") >>)
               /\ call.name = "remove_labels_from_issue"
               /\ Lookup(call.args.obj, "labels") = StrItems(<< "bug" >>))
              => text = "urgent"

C17_Witness ==
  /\ calls[1].name = "add_labels_to_issue"
  /\ calls[1].pc = "responded"
  /\ Lookup(calls[1].args.obj, "labels") = StrItems(<< "urgent", "docs" >>)
  /\ Lookup(calls[1].reqs[2].body, "labels") = Str("bug,urgent,docs")

----------------------------------------------------------------------------
(* Independence of the operations in flight                                *)

\* The run of one invocation on its own: its responses fed to it in order,
\* its last fetch rejecting when rejected.
RECURSIVE FeedCall(_, _, _)
FeedCall(call, resps, rejected) ==
  IF call.pc # "fetch" THEN call
  ELSE IF resps = <<>> THEN (IF rejected THEN OnFetchError(call) ELSE call)
  ELSE LET got == OnResponse(call, Head(resps))
       IN FeedCall(IF got.pc = "body" THEN OnBody(got) ELSE got, Tail(resps), rejected)

SoloCall(name, args, resps, rejected) ==
  LET received == [IdleCall EXCEPT !.pc = "received", !.name = name, !.args = args]
      dispatched == DispatchStep(received)
      started == IF dispatched.pc = "validating" THEN ValidateStep(dispatched)
                 ELSE dispatched
  IN FeedCall(started, resps, rejected)

\* The run of one makeGitLabRequest call on its own, given its attempts' outcomes.
RECURSIVE FeedInvoker(_, _)
FeedInvoker(m, outcomes) ==
  IF outcomes = <<>> \/ m.phase # "fetch" THEN m
  ELSE LET got == MkOnResponse(m, Head(outcomes).resp)
           done == IF got.phase = "body" THEN MkOnBody(got) ELSE got
           next == IF done.phase = "sleep" /\ Len(outcomes) > 1
                   THEN MkFetch(done, done.attempt + 1) ELSE done
       IN FeedInvoker(next, Tail(outcomes))

SoloInvoker(method, outcomes) ==
  FeedInvoker(MkFetch([MkIdle EXCEPT !.method = method], 1), outcomes)

----------------------------------------------------------------------------
(* Properties of the tool catalog                                          *)

ListedNames == { proc.tools[i].name : i \in 1..Len(proc.tools) }

\* The schema the catalog the client was given advertises for a tool.
Advertised(name) ==
  LET i == CHOOSE i \in 1..Len(proc.tools) : proc.tools[i].name = name
  IN proc.tools[i].inputSchema

\* C21: once the catalog has been listed, its names are pairwise distinct, the
\* listed names are exactly the labels of the switch (one case per label, so an
\* invocation fails with MethodNotFound exactly when its name is not listed),
\* and the schema advertised for a tool is the one its case validates the
\* arguments against.
C21_CatalogIsConsistent ==
  proc.listed
  => /\ \A i, j \in 1..Len(proc.tools) :
          proc.tools[i].name = proc.tools[j].name => i = j
     /\ \A i, j \in 1..Len(SwitchCases) :
          SwitchCases[i].label = SwitchCases[j].label => i = j
     /\ ListedNames = { SwitchCases[i].label : i \in 1..Len(SwitchCases) }
     /\ Len(proc.tools) = 37
     /\ \A i \in 1..Len(proc.tools) :
          proc.tools[i].inputSchema = CaseSchema(proc.tools[i].name)
     /\ \A c \in DOMAIN calls :
          LET call == calls[c]
          IN (Started(call) /\ call.args.present)
             => /\ call.outcome.code = "MethodNotFound" <=> call.name \notin ListedNames
                /\ (call.name \in ListedNames /\ call.pc # "validating")
                   => LET schema == SchemaNamed(Advertised(call.name))
                      IN IF ZodIssues(schema, call.args.obj) # <<>>
                         THEN call.thrown.class = "ZodError" /\ call.reqs = <<>>
                         ELSE /\ call.validated = ZodParsed(schema, call.args.obj)
                              /\ call.reqs # <<>>

C21_Witness ==
  /\ proc.listed
  /\ Len(proc.tools) = 37
  /\ \E c \in DOMAIN calls :
       /\ calls[c].name = "delete_project"
       /\ calls[c].validated # <<>>
       /\ calls[c].reqs # <<>>

----------------------------------------------------------------------------
(* Properties of the URL encoding                                          *)

\* The escape of a character other than the slash.
Escaped(ch) ==
  CASE ch = " " -> "%20"
    [] ch = "#" -> "%23"
    [] ch = "%" -> "%25"
    [] ch = "?" -> "%3F"
    [] OTHER -> ch

\* The text with every character escaped, the slash as given.
RECURSIVE EscapedBy(_, _)
EscapedBy(text, slash) ==
  IF text = "" THEN ""
  ELSE LET ch == SubSeq(text, 1, 1)
       IN (IF ch = "/" THEN slash ELSE Escaped(ch))
          \o EscapedBy(SubSeq(text, 2, Len(text)), slash)

\* C22: the URL of a file request carries the file path with every character
\* escaped as encodeURIComponent escapes it except the slash, which is kept
\* ("a/b c#d" is sent as "a/b%20c%23d"), and the project identifier and the
\* ref escaped as a whole, a slash becoming %2F.
C22_PathKeepsSlashProjectDoesNot ==
  \A c \in DOMAIN calls :
    LET call == calls[c]
        projectId == Lookup(call.args.obj, "project_id").s
        filePath == Lookup(call.args.obj, "file_path").s
        ref == Lookup(call.args.obj, "ref")
    IN (call.name = "get_file_contents" /\ call.reqs # <<>>)
       => /\ Len(call.reqs) = 1
          /\ call.reqs[1].url
               = "https://gitlab.com/api/v4/projects/" \o EscapedBy(projectId, "%2F")
                 \o "/repository/files/" \o EscapedBy(filePath, "/")
                 \o (IF ref.t = "undefined" THEN "" ELSE "?ref=" \o EscapedBy(ref.s, "%2F"))
          /\ (filePath = "a/b c#d" /\ projectId = "group/app" /\ ref.t = "undefined")
             => call.reqs[1].url
                  = "https://gitlab.com/api/v4/projects/group%2Fapp/repository/files/a/b%20c%23d"

C22_Witness ==
  /\ calls[1].pc = "responded"
  /\ calls[1].reqs[1].url
       = "https://gitlab.com/api/v4/projects/group%2Fapp/repository/files/a/b%20c%23d?ref=main"
  /\ Lookup(calls[1].returned, "content") = Str("hello")

----------------------------------------------------------------------------
(* Properties of the error normalisation                                   *)

\* The invocation ended with the error handleApiError threw for its last response.
FailedOnStatus(call) ==
  /\ call.pc = "error"
  /\ call.resps # <<>>
  /\ ~ResponseOk(call.resps[Len(call.resps)])
  /\ Len(call.resps) = Len(call.reqs)

HasFilePathHint(message) ==
  Includes(message, "Make sure the file path is correct and properly formatted")

\* C23: the error thrown for a non-2xx response carries the status and the
\* status text; it carries the file-path hint whenever the status is 400 and
\* the text of the response mentions file_path, and never with another status.
C23_FilePathHintOn400 ==
  \A c \in DOMAIN calls :
    LET call == calls[c]
        resp == call.resps[Len(call.resps)]
    IN FailedOnStatus(call)
       => /\ call.thrown.class = "Error"
          /\ Includes(call.thrown.message,
                      "GitLab API error (" \o ToString(resp.status) \o "): " \o resp.statusText)
          /\ (resp.status = 400 /\ Includes(ResponseText(resp), "file_path"))
             => HasFilePathHint(call.thrown.message)
          /\ resp.status # 400 => ~HasFilePathHint(call.thrown.message)

----------------------------------------------------------------------------
(* Properties of the requests                                              *)

\* C24: every request with a method other than GET carries the header
\* Content-Type: application/json.
C24_NonGetHasJsonContentType ==
  \A c \in DOMAIN calls :
    \A i \in 1..Len(calls[c].reqs) :
      calls[c].reqs[i].method # "GET" => calls[c].reqs[i].contentType

----------------------------------------------------------------------------
(* Properties of the two-step handlers                                     *)

\* The invocation reads before it writes: a label tool, or create_branch
\* without a usable ref.
IsTwoStep(call) ==
  \/ call.name \in {"add_labels_to_issue", "remove_labels_from_issue"}
  \/ /\ call.name = "create_branch"
     /\ Lookup(call.args.obj, "ref") \in {Undefined, Str("")}

\* The body the first request was answered with is one the handler can use.
FirstStepBodyUsable(call) ==
  LET body == call.resps[1].body
  IN /\ body.fmt = "json"
     /\ IF call.name = "create_branch"
        THEN /\ Lookup(body.obj, "id").t = "number"
             /\ Lookup(body.obj, "name").t = "string"
             /\ Lookup(body.obj, "default_branch").t = "string"
        ELSE /\ Lookup(body.obj, "iid").t = "number"
             /\ Lookup(body.obj, "title").t = "string"
             /\ Lookup(body.obj, "state").t = "string"
             /\ Lookup(body.obj, "labels").t = "array"

\* The first request failed: the fetch was rejected, the status was not 2xx,
\* or the body was not usable.
FirstStepFailed(call) ==
  /\ call.reqs # <<>>
  /\ \/ call.resps = <<>> /\ call.pc # "fetch"
     \/ call.resps # <<>> /\ ~ResponseOk(call.resps[1])
     \/ call.resps # <<>> /\ ResponseOk(call.resps[1]) /\ call.pc # "body"
        /\ ~FirstStepBodyUsable(call)

\* C25: in a two-step handler the first request is a GET, the second request is
\* issued only after the first has succeeded, and a failure of the first ends
\* the invocation in Error with one request issued; create_branch with a
\* non-empty ref issues the create request alone.
C25_FirstStepFailureAborts ==
  \A c \in DOMAIN calls :
    LET call == calls[c]
    IN /\ (IsTwoStep(call) /\ call.reqs # <<>>)
          => /\ call.reqs[1].method = "GET"
             /\ Len(call.reqs) <= 2
             /\ Len(call.reqs) = 2
                => /\ call.reqs[2].method \in {"POST", "PUT"}
                   /\ call.resps # <<>>
                   /\ ResponseOk(call.resps[1])
                   /\ FirstStepBodyUsable(call)
             /\ FirstStepFailed(call)
                => /\ Len(call.reqs) = 1
                   /\ call.pc = "error"
                   /\ call.outcome.kind = "error"
       /\ (call.name = "create_branch" /\ ~IsTwoStep(call) /\ call.reqs # <<>>)
          => /\ Len(call.reqs) = 1
             /\ call.reqs[1].method = "POST"
             /\ call.reqs[1].body = << <<"branch", Str("feature")>>,
                                       <<"ref", Lookup(call.args.obj, "ref")>> >>

C25_Witness ==
  \E c \in DOMAIN calls :
    /\ calls[c].name = "add_labels_to_issue"
    /\ calls[c].pc = "error"
    /\ Len(calls[c].reqs) = 1
    /\ Len(calls[c].resps) = 1
    /\ calls[c].resps[1].status = 404

----------------------------------------------------------------------------
(* Properties of the discarded probe error                                 *)

ProbeStatus(call) == IF call.resps = <<>> THEN 0 ELSE call.resps[1].status

\* C26: a probe failure whose message has neither '404' nor 'file_path' nor
\* 'Bad Request' (a 401, 403 or 500 answer, a rejected fetch) is dropped: the
\* handler goes on to a POST, and the invocation ends as the POST ends. The
\* write is left out only when the message has no '404' and has 'file_path' or
\* 'Bad Request'.
C26_ProbeErrorIsDiscarded ==
  \A c \in DOMAIN calls :
    LET call == calls[c]
        message == ErrorMessage(call.caught)
        malformed == /\ ~Includes(message, "404")
                     /\ Includes(message, "file_path") \/ Includes(message, "Bad Request")
    IN /\ (call.name = "create_or_update_file" /\ call.caught.class # "none")
          => IF malformed
             THEN /\ WriteRequests(call) = {}
                  /\ call.pc = "error"
             ELSE /\ Len(call.reqs) = 2
                  /\ call.reqs[2].method = "POST"
                  /\ call.thrown # call.caught
                  /\ call.pc = "error"
                     => \/ call.thrown.class = "ZodError"
                        \/ Includes(call.thrown.message, call.reqs[2].url \o " ")
                        \/ /\ call.resps # <<>>
                           /\ call.thrown.message
                                = HandleApiErrorMessage(call.resps[Len(call.resps)])
       /\ (call.name = "create_or_update_file" /\ ProbeHandled(call)
           /\ ProbeStatus(call) \in {401, 403, 500})
          => /\ Len(call.reqs) = 2
             /\ call.reqs[2].method = "POST"
             /\ ~Includes(call.outcome.message, ToString(ProbeStatus(call)))
       /\ (call.name = "create_or_update_file" /\ Includes(call.caught.message, "ECONNREFUSED"))
          => /\ Len(call.reqs) = 2
             /\ call.reqs[2].method = "POST"
       /\ (call.name = "create_or_update_file" /\ Terminal(call) /\ call.validated # <<>>
           /\ WriteRequests(call) = {})
          => /\ malformed
             /\ SubSeq(call.thrown.message, 1, 28) = "Invalid file path format for"

C26_Witness ==
  \E c \in DOMAIN calls :
    /\ calls[c].name = "create_or_update_file"
    /\ calls[c].pc = "responded"
    /\ calls[c].resps[1].status = 500
    /\ calls[c].caught.message = "GitLab API error (500): Internal Server Error"
    /\ calls[c].reqs[2].method = "POST"

----------------------------------------------------------------------------
(* Properties of the output validation                                     *)

\* The typed output contracts: the required fields and their types.
OutputContract(fn) ==
  CASE fn \in {"createRepository", "getDefaultBranchRef"} ->
         { <<"id", "number">>, <<"name", "string">>, <<"default_branch", "string">> }
    [] fn = "createBranch" -> { <<"name", "string">> }
    [] OTHER -> {}

Conforms(obj, contract) == \A f \in contract : Lookup(obj, f[1]).t = f[2]

\* The invocation has ended after the function it awaited last got a 2xx JSON
\* body.
DecodedBody(call) ==
  /\ Terminal(call)
  /\ call.resps # <<>>
  /\ Len(call.resps) = Len(call.reqs)
  /\ ResponseOk(call.resps[Len(call.resps)])
  /\ call.resps[Len(call.resps)].body.fmt = "json"

----------------------------------------------------------------------------
(* Properties of concurrent label updates                                  *)

\* The labels invocation c asked to add, and those its read returned.
Added(call) ==
  LET given == Lookup(call.args.obj, "labels").items
  IN { given[i].s : i \in 1..Len(given) }

ReadLabels(call) == NameSet(Lookup(call.resps[1].body.obj, "labels").items)

\* The position in GitLab's log of the request of invocation c with the method.
ServedAt(c, method) ==
  CHOOSE i \in 1..Len(remote.log) : remote.log[i] = [by |-> c, method |-> method]

FinalLabels == { remote.labels[i] : i \in 1..Len(remote.labels) }

\* C28: when two add_labels_to_issue invocations have both ended in Responded,
\* the labels of the issue are the union the last writer computed from its own
\* read; if that read was served before the other invocation's update, the
\* labels only the other one added are missing, and if it was served right
\* after that update, they are there.
C28_LastWriterWins ==
  \A c, d \in DOMAIN calls :
    (/\ c # d
     /\ calls[c].pc = "responded"
     /\ calls[d].pc = "responded"
     /\ remote.log[Len(remote.log)] = [by |-> d, method |-> "PUT"])
    => /\ FinalLabels = ReadLabels(calls[d]) \cup Added(calls[d])
       /\ ServedAt(d, "GET") < ServedAt(c, "PUT")
          => \A name \in Added(calls[c]) \ (ReadLabels(calls[d]) \cup Added(calls[d])) :
               name \notin FinalLabels
       /\ ServedAt(c, "PUT") + 1 = ServedAt(d, "GET")
          => Added(calls[c]) \subseteq FinalLabels

\* Both reads are served before either update, both invocations end in
\* Responded, and the label one of them added is lost.
C28_Witness ==
  /\ calls[1].pc = "responded"
  /\ calls[2].pc = "responded"
  /\ Added(calls[1]) = { "docs" }
  /\ Added(calls[2]) = { "urgent" }
  /\ [i \in 1..4 |-> remote.log[i].method] = << "GET", "GET", "PUT", "PUT" >>
  /\ remote.log[4].by = 2
  /\ FinalLabels = { "bug", "urgent" }
  /\ Lookup(calls[1].returned, "labels") = StrItems(<< "bug", "docs" >>)

\* ---------------------------------------------------------------------------
\* C29
\* ---------------------------------------------------------------------------

\* The invoker fed with the outcomes of the attempts it waited for, and with
\* nothing else.
RECURSIVE AwaitedOnly(_, _)
AwaitedOnly(m, outcomes) ==
  IF outcomes = <<>> \/ m.phase # "fetch" THEN m
  ELSE LET o == Head(outcomes)
           got == CASE o.kind = "response" -> MkOnResponse(m, o.resp)
                    [] o.kind = "timeout" -> MkOnTimeout(m)
                    [] OTHER ->
                         MkCatch([m EXCEPT !.outcomes = Append(@, o)],
                                 "request to " \o MkUrl
                                   \o " failed, reason: connect ECONNREFUSED")
           done == IF got.phase = "body" THEN MkOnBody(got) ELSE got
           next == IF done.phase = "sleep" /\ Len(outcomes) > 1
                   THEN MkFetch(done, done.attempt + 1) ELSE done
       IN AwaitedOnly(next, Tail(outcomes))

TimedOutAttempts(m) == { i \in 1..Len(m.outcomes) : m.outcomes[i].kind = "timeout" }

AppliedAttempts == { remote.log[i].by : i \in 1..Len(remote.log) }

\* C29: a timeout of makeGitLabRequest leaves the fetch of the attempt
\* outstanding (it is pending until it settles on its own, late), at most
\* DefaultRetries requests of the call are outstanding at once, every request
\* of the call is the same request sent again, whatever GitLab applied of it,
\* and the result or the error of a call that has ended is the one its awaited
\* outcomes alone determine, whichever abandoned fetch settled meanwhile.
C29_TimeoutLeavesFetchOutstanding ==
  /\ TimedOutAttempts(mk) \subseteq mk.pending \cup mk.late
  /\ mk.late \subseteq TimedOutAttempts(mk)
  /\ mk.pending \cup AppliedAttempts \subseteq 1..Len(mk.reqs)
  /\ Cardinality(mk.pending) <= DefaultRetries
  /\ \A i \in 1..Len(mk.reqs) : mk.reqs[i] = mk.reqs[1]
  /\ \A i \in TimedOutAttempts(mk) :
       i < DefaultRetries /\ (mk.attempt > i \/ mk.phase # "sleep")
         => Len(mk.reqs) > i
  /\ mk.phase \in {"returned", "thrown"}
       => LET alone == AwaitedOnly(MkFetch([MkIdle EXCEPT !.method = mk.method], 1),
                                   mk.outcomes)
          IN /\ alone.phase = mk.phase
             /\ alone.result = mk.result
             /\ alone.error = mk.error
             /\ alone.sleeps = mk.sleeps
             /\ alone.reqs = mk.reqs

\* C29 witness: the third POST of one call is awaited while the two that timed
\* out are still outstanding, and GitLab has applied both of them.
C29_Witness ==
  /\ mk.phase = "fetch"
  /\ mk.method = "POST"
  /\ mk.attempt = DefaultRetries
  /\ mk.pending = 1..DefaultRetries
  /\ TimedOutAttempts(mk) = {1, 2}
  /\ AppliedAttempts = {1, 2}

\* ---------------------------------------------------------------------------
\* C30
\* ---------------------------------------------------------------------------

\* C30: fed the same invocation and the same responses, the call handlers of
\* build 1.2.0 and build 1.3.0 are at the same step with the same requests
\* issued; when one returns an envelope the other returns the same envelope,
\* and when one fails the other fails: 1.2.0 with a plain Error carrying
\* "Arguments are required", "Unknown tool: <name>", "Invalid arguments: ..."
\* or the original error, 1.3.0 with an McpError of code InvalidParams,
\* MethodNotFound, InvalidParams or InternalError respectively.
C30_VersionsAgreeUpToErrorWrapping ==
  LET old == calls["1.2.0"]
      new == calls["1.3.0"]
  IN /\ old.pc = new.pc
     /\ old.name = new.name /\ old.args = new.args
     /\ old.reqs = new.reqs /\ old.resps = new.resps
     /\ old.returned = new.returned
     /\ new.pc # "error" => old.outcome = new.outcome
     /\ new.pc = "error"
          => /\ old.outcome.kind = "error" /\ new.outcome.kind = "error"
             /\ old.outcome.code = ""
             /\ CASE ~new.args.present ->
                       /\ old.outcome.message = "Arguments are required"
                       /\ new.outcome.code = "InvalidParams"
                  [] new.name \notin RegisteredTools ->
                       /\ old.outcome.message = "Unknown tool: " \o new.name
                       /\ new.outcome.code = "MethodNotFound"
                  [] new.thrown.class = "ZodError" ->
                       /\ old.thrown = new.thrown
                       /\ old.outcome.message
                            = "Invalid arguments: " \o Join(IssueTexts(old.thrown.issues), ", ")
                       /\ new.outcome.code = "InvalidParams"
                  [] OTHER ->
                       /\ old.thrown = new.thrown
                       /\ old.thrown.class = "Error"
                       /\ old.outcome.message = old.thrown.message
                       /\ new.outcome.code = "InternalError"

\* C30 witness: both builds have issued the same request and failed on the
\* same GitLab error, 1.2.0 with the error of handleApiError and 1.3.0 with an
\* InternalError McpError wrapping it.
C30_Witness ==
  /\ calls["1.3.0"].pc = "error"
  /\ calls["1.2.0"].pc = "error"
  /\ calls["1.3.0"].reqs # <<>>
  /\ calls["1.3.0"].outcome.code = "InternalError"
  /\ calls["1.2.0"].outcome.code = ""
  /\ calls["1.2.0"].resps # <<>>
  /\ calls["1.2.0"].outcome.message
       = HandleApiErrorMessage(calls["1.2.0"].resps[Len(calls["1.2.0"].resps)])
  /\ calls["1.3.0"].outcome.message
       = "Tool execution failed: " \o calls["1.2.0"].outcome.message

============================================================================
